---- MODULE Spec2Model ----
(***************************************************************************)
(* LuminReplay: the OBSManager of electron/obs.ts as a state machine.      *)
(*                                                                         *)
(* Every action is one run-to-completion task of the Node event loop: a    *)
(* public method up to its first await, a timer callback, the signal       *)
(* callback of the recording engine (with the promise continuations it     *)
(* wakes, which run as microtasks before any other task), or a step of an  *)
(* external collaborator (the recording engine, the transcoder).           *)
(***************************************************************************)
EXTENDS Integers, Sequences, FiniteSets, TLC

\* ------------------------------------------------------------------ bounds
MaxSaves == 2
MaxRestarts == 2
MaxQueue == 2
MaxCalls == 3
MaxSettingsCalls == 2
MaxOtherSignals == 2

SaveIds == 1..MaxSaves
RestartIds == 1..MaxRestarts

\* --------------------------------------------------- signal vocabulary
EOBSOutputType == {"streaming", "recording", "replay-buffer"}
EOBSOutputSignal == {"start", "stop", "wrote", "writing_error"}

\* error strings the engine supplies with a writing_error signal
EngineErrors == {"", "disk full"}

\* ----------------------------------------------------------------- paths
\* A replay path is directory + file name; the file name is split into the
\* leading word the rename step looks at and the rest.
Path(d, b, r) == [dir |-> d, base |-> b, rest |-> r]
NoPath == Path("", "", "")
\* the names the engine writes: its default "Replay ..." or a user format
EnginePaths == {Path("videos", "Replay", " 2024.mp4"), Path("videos", "Clip", " 2024.mp4")}

StartsWithReplay(p) == p.base = "Replay"
RenamedPath(p) == Path(p.dir, "LuminReplay", p.rest)

\* ------------------------------------------------------------- displays
Display(px, py, w, h) == [x |-> px, y |-> py, width |-> w, height |-> h]
Layouts ==
    { << Display(0, 0, 1920, 1080) >>,
      << Display(0, 0, 1920, 1080), Display(1920, 0, 1920, 1080) >> }

\* displays a layout of the geometry checks is drawn from: side by side,
\* left of the origin, above it, of different sizes
MaxGeomDisplays == 3
DisplayPool ==
    { Display(0, 0, 1920, 1080), Display(1920, 0, 1920, 1080),
      Display(-1280, 0, 1280, 1024), Display(0, -1440, 2560, 1440) }
Overlap(a, b) ==
    /\ a.x < b.x + b.width /\ b.x < a.x + a.width
    /\ a.y < b.y + b.height /\ b.y < a.y + a.height
\* the operating system reports every display once, and displays do not overlap
GeomLayouts ==
    {l \in UNION {[1..n -> DisplayPool] : n \in 1..MaxGeomDisplays} :
        \A i, j \in 1..Len(l) : i # j => ~Overlap(l[i], l[j])}

\* layouts the splitter is run on: those above and one whose displays differ
\* in size, so that they leave part of their bounding rectangle empty
SplitLayouts ==
    Layouts \cup { << Display(0, 0, 1920, 1080), Display(-1280, 0, 1280, 1024) >> }

\* settings.enabledMonitors: undefined, or a list of 0-based display indices
Undefined == [defined |-> FALSE, list |-> << >>]
Enabled(l) == [defined |-> TRUE, list |-> l]
EnabledChoices == {Undefined, Enabled(<< >>), Enabled(<<0>>), Enabled(<<1>>), Enabled(<<0, 1>>)}

\* enabled-monitor lists for the geometry checks: subsets, a list in another
\* order, one naming a display twice, and lists naming a display that is
\* not connected
GeomEnabledChoices ==
    {Undefined} \cup
    {Enabled(l) : l \in {<< >>, <<0>>, <<1>>, <<2>>, <<0, 1>>, <<1, 0>>, <<0, 2>>, <<1, 2>>,
                         <<0, 1, 2>>, <<1, 1>>, <<3>>, <<0, 3>>}}

Includes(list, i) == \E k \in 1..Len(list) : list[k] = i

\* ----------------------------------------------------------- resolutions
\* settings.captureResolution / outputResolution: a ResolutionPreset, or
\* absent from the stored settings
ResolutionPresets == {"native", "1080p", "720p", "480p", "custom"}
NoPreset == "undefined"
Res(w, h) == [width |-> w, height |-> h]
\* settings.customCaptureResolution / customOutputResolution left undefined
NoRes == Res(0, 0)
CustomResolutions == {NoRes, Res(1280, 720), Res(2560, 1440)}
VideoSettings(cp, cc, op, oc) ==
    [captureResolution |-> cp, customCaptureResolution |-> cc,
     outputResolution |-> op, customOutputResolution |-> oc]
\* the stored settings before the user chose any resolution
DefaultVideoSettings == VideoSettings(NoPreset, NoRes, NoPreset, NoRes)
\* a custom resolution is entered only under the preset 'custom'
PresetChoices ==
    {<< p, NoRes >> : p \in (ResolutionPresets \cup {NoPreset}) \ {"custom"}}
        \cup {<< "custom", c >> : c \in CustomResolutions}
VideoSettingsChoices ==
    {VideoSettings(c[1], c[2], o[1], o[2]) : c \in PresetChoices, o \in PresetChoices}

\* -------------------------------------------------------------- settings
\* AppSettings, as far as it is told apart here
AppSettings(dur, fmt, da, mic, p) ==
    [replayBufferDuration |-> dur, recordingFormat |-> fmt,
     captureDesktopAudio |-> da, captureMicrophone |-> mic, recordingPath |-> p]
defaultSettings == AppSettings(30, "mp4", TRUE, TRUE, "")
\* the constructor replaces an empty recordingPath by <videos>/LuminReplay
StartupSettings == [defaultSettings EXCEPT !.recordingPath = "videos/LuminReplay"]
SettingsChoices ==
    {AppSettings(dur, fmt, da, mic, p) :
        dur \in {30, 120}, fmt \in {"mp4", "mkv"}, da \in BOOLEAN, mic \in BOOLEAN,
        p \in {"videos/LuminReplay", "D:/clips"}}

\* this.settings as a whole: the declared keys and the keys obs.ts reads
\* besides them (enabledMonitors, the resolution presets), which have no
\* entry in defaultSettings
Stored(app, en, vs) == [app |-> app, enabledMonitors |-> en, videoSettings |-> vs]
\* the key / value pairs setSetting is called with
SettingValues ==
    {<< "replayBufferDuration", 120 >>, << "recordingFormat", "mkv" >>,
     << "captureDesktopAudio", FALSE >>, << "captureMicrophone", FALSE >>,
     << "recordingPath", "D:/clips" >>, << "enabledMonitors", Enabled(<<0>>) >>,
     << "outputResolution", "720p" >>}
AppKeys ==
    {"replayBufferDuration", "recordingFormat", "captureDesktopAudio", "captureMicrophone",
     "recordingPath"}

\* ----------------------------------------------------------------- audio
\* InputFactory.create for an audio input: it yields the input, yields
\* nothing (and fromName finds none either), or throws
AudioOutcomes == {"created", "missing", "throws"}
AudioDevices(da, mic) == [desktop |-> da, microphone |-> mic]

\* ------------------------------------------------------------ file names
\* A file path as the pieces the output-name pattern tells apart: "." and
\* runs of other characters.
ReplayFiles ==
    { << "videos/LuminReplay 2024", ".", "mp4" >>,
      << "videos/Replay 2024-01-01 10", ".", "30", ".", "mkv" >>,
      << "C:/Users/j", ".", "doe/Videos/clip", ".", "flv" >> }
DefaultReplayFile == << "videos/LuminReplay 2024", ".", "mp4" >>

VARIABLES
    obsLoaded,            \* the native module loaded (obs !== undefined)
    initialized,
    replayBufferRunning,
    isRestarting,
    pendingStopResolve,   \* 0 = null, else the restart invocation whose stopPromise it resolves
    pendingReplaySave,    \* 0 = null, else the save call whose handlers it holds
    lastReplayPath,
    savePromise,          \* per save call: the promise saveReplayBuffer returned
    saveTimer,            \* per save call: its 10 s timeout
    settleCalls,          \* per save call: how often resolve/reject was called on its promise
    restartPc,            \* per restart invocation: where it stands
    stopPromise,          \* per restart invocation: its stopPromise
    restartLog,           \* per restart invocation: the steps it performed, in order
    engineState,          \* the engine's replay buffer: "inactive", "active", "stopping", "restarting"
    engineWrites,         \* save triggers the engine has not answered yet
    engineLastReplay,     \* what OBS_service_getLastReplay returns
    signalQueue,          \* signals the engine emitted, not yet delivered
    scene,                \* the scene set as output source 0: display indices of its items
    displays,
    enabledMonitors,
    videoSettings,        \* the resolution presets and custom resolutions of the settings
    video,                \* what setupVideo last computed and gave the engine
    filePath,             \* the filePath argument of processReplay
    sourceFile,           \* the combined replay file: "present", "absent" or "deleted"
    procState,            \* the processReplay call: "idle", "cropping", "resolved", "rejected"
    procTarget,           \* its monitorIndex argument
    procError,            \* the error it rejected with
    cropState,            \* per display index: the transcoder run processOne started
    cropJob,              \* per display index: the crop filter and output name of that run
    procCanvas,           \* the native rectangle and output resolution processReplay computed
    appSettings,          \* SettingsManager.settings
    settingsFile,         \* the settings as last written to luminreplay-settings.json
    settingsCalls,        \* the setSetting and resetToDefaults calls made: what each found and whether its write went through
    audioDevices,         \* what creating the desktop-audio and microphone inputs comes to
    audioSources,         \* the audio inputs the last scene composition set as output sources
    callLog,              \* the initialize and shutdown calls made: engine requests and result of each
    ipcConnected,         \* the IPC connection to the engine is up
    engineOtherSignals,   \* the signals the engine's streaming and recording outputs have emitted
    engineSyncAnswers     \* the save calls whose trigger the engine answered before the trigger returned

ctlVars == << obsLoaded, initialized, replayBufferRunning, isRestarting,
              pendingStopResolve, pendingReplaySave, lastReplayPath >>
saveVars == << savePromise, saveTimer, settleCalls >>
restartVars == << restartPc, stopPromise, restartLog >>
engineVars == << engineState, engineWrites, engineLastReplay, signalQueue >>
cfgVars == << scene, displays, enabledMonitors, videoSettings, video >>
splitVars == << filePath, sourceFile, procState, procTarget, procError, cropState, cropJob, procCanvas >>
settingsVars == << appSettings, settingsFile, settingsCalls >>
audioVars == << audioDevices, audioSources >>
lifeVars == << callLog, ipcConnected >>
otherVars == << engineOtherSignals, engineSyncAnswers >>
vars == << ctlVars, saveVars, restartVars, engineVars, cfgVars, splitVars,
           settingsVars, audioVars, lifeVars, otherVars >>

\* display indices a caller can name: those of the largest layout and one beyond
MaxDisplays == CHOOSE n \in 1..4 : (\A l \in Layouts : Len(l) <= n) /\ (\E l \in Layouts : Len(l) = n)
DisplayIndices == 0..MaxDisplays
\* monitorIndex: 'all' or a number
All == [all |-> TRUE, index |-> 0]
Monitor(i) == [all |-> FALSE, index |-> i]
Targets == {All} \cup {Monitor(i) : i \in DisplayIndices}

Unsettled == [state |-> "none", path |-> NoPath, error |-> ""]
Pending == [state |-> "pending", path |-> NoPath, error |-> ""]
Resolved(p) == [state |-> "resolved", path |-> p, error |-> ""]
Rejected(e) == [state |-> "rejected", path |-> NoPath, error |-> e]

Signal(t, s, e, c) == [type |-> t, signal |-> s, error |-> e, cause |-> c]

\* nothing computed yet: setupVideo has not run, processReplay has not run,
\* no crop was started for a display
NoVideo == [minX |-> 0, minY |-> 0, nativeWidth |-> 0, nativeHeight |-> 0,
            captureRes |-> NoRes, outputRes |-> NoRes]
NoCanvas == [minX |-> 0, minY |-> 0, nativeWidth |-> 0, nativeHeight |-> 0, res |-> NoRes]
NoJob == [crop |-> [x |-> 0, y |-> 0, w |-> 0, h |-> 0], output |-> << >>]

\* the controller after construction, its collaborators at rest
InitManager ==
    /\ initialized = FALSE
    /\ replayBufferRunning = FALSE
    /\ isRestarting = FALSE
    /\ pendingStopResolve = 0
    /\ pendingReplaySave = 0
    /\ lastReplayPath = NoPath
    /\ savePromise = [s \in SaveIds |-> Unsettled]
    /\ saveTimer = [s \in SaveIds |-> "none"]
    /\ settleCalls = [s \in SaveIds |-> 0]
    /\ restartPc = [r \in RestartIds |-> "idle"]
    /\ stopPromise = [r \in RestartIds |-> "none"]
    /\ restartLog = [r \in RestartIds |-> << >>]
    /\ engineState = "inactive"
    /\ engineWrites = << >>
    /\ engineLastReplay = NoPath
    /\ signalQueue = << >>
    /\ scene = << >>
    /\ video = NoVideo
    /\ procState = "idle"
    /\ procTarget = All
    /\ procError = ""
    /\ cropState = [i \in DisplayIndices |-> "none"]
    /\ cropJob = [i \in DisplayIndices |-> NoJob]
    /\ procCanvas = NoCanvas
    /\ audioSources = << >>
    /\ callLog = << >>
    /\ ipcConnected = FALSE
    /\ engineOtherSignals = 0
    /\ engineSyncAnswers = {}

Init ==
    /\ InitManager
    /\ appSettings = StartupSettings
    /\ audioDevices = AudioDevices("created", "created")
    /\ obsLoaded \in BOOLEAN
    /\ displays \in Layouts
    /\ enabledMonitors \in EnabledChoices
    /\ videoSettings = DefaultVideoSettings
    /\ filePath = DefaultReplayFile
    /\ sourceFile \in {"present", "absent"}
    /\ settingsFile = Stored(appSettings, enabledMonitors, videoSettings)
    /\ settingsCalls = << >>

\* ------------------------------------------------ the recording engine
\* The engine is a black box behind obs.NodeObs; the controller sees it only
\* through its requests and the signals it emits. A stop request makes an
\* active buffer stop, and Stop is emitted when it has stopped. A start
\* request may start the buffer, throw, or be refused: when it starts an
\* inactive buffer Start is emitted; on a buffer that is still stopping it
\* takes effect once the buffer has stopped. A request that throws changes
\* nothing.
StartOutcomes == {"starts", "throws", "refused"}
EngineAfterStart(st, o) ==
    IF o # "starts" THEN st
    ELSE IF st = "inactive" THEN "active"
    ELSE IF st = "stopping" THEN "restarting"
    ELSE st
StartSignals(st, o) ==
    IF o = "starts" /\ st = "inactive" THEN << Signal("replay-buffer", "start", "", 0) >> ELSE << >>
EngineAfterStop(st, throws) ==
    IF throws THEN st
    ELSE IF st = "active" THEN "stopping"
    ELSE IF st = "restarting" THEN "stopping"
    ELSE st

\* -------------------------------------------------------------- promises
Settle(p, outcome) == IF p.state = "pending" THEN outcome ELSE p
ClearTimeout(t) == IF t = "armed" THEN "cleared" ELSE t

\* ------------------------------------------------------------ setupVideo
IndexSeq(n) == [k \in 1..n |-> k - 1]
IsEnabled(enabled, i) == ~enabled.defined \/ Includes(enabled.list, i)

\* allDisplays.filter(...) and the fallback "if (displays.length === 0)
\* displays.push(...allDisplays)"
FilterDisplays(ds, enabled) ==
    LET kept == SelectSeq(IndexSeq(Len(ds)), LAMBDA i : IsEnabled(enabled, i))
    IN  [k \in 1..Len(kept) |-> ds[kept[k] + 1]]
\* the fallback taking the first display only
ActiveDisplaysFirstOnly(ds, enabled) ==
    IF Len(FilterDisplays(ds, enabled)) = 0 THEN << ds[1] >> ELSE FilterDisplays(ds, enabled)

ActiveDisplays(ds, enabled) ==
    IF Len(FilterDisplays(ds, enabled)) = 0 THEN ds ELSE FilterDisplays(ds, enabled)

\* let minX = 0, minY = 0, maxX = 0, maxY = 0; displays.forEach((d, i) => ...):
\* the loop from element k on, with the box found so far
RECURSIVE BoxFrom(_, _, _)
BoxFrom(ds, k, box) ==
    IF k > Len(ds) THEN box
    ELSE LET d == ds[k]
         IN  BoxFrom(ds, k + 1,
                 [minX |-> IF k = 1 \/ d.x < box.minX THEN d.x ELSE box.minX,
                  minY |-> IF k = 1 \/ d.y < box.minY THEN d.y ELSE box.minY,
                  maxX |-> IF k = 1 \/ d.x + d.width > box.maxX
                           THEN d.x + d.width ELSE box.maxX,
                  maxY |-> IF k = 1 \/ d.y + d.height > box.maxY
                           THEN d.y + d.height ELSE box.maxY])
\* the box without the "i === 0" cases: it starts at 0 and only grows
BoundingBoxFromZero(ds) ==
    [minX |-> IF \E k \in 1..Len(ds) : ds[k].x < 0
              THEN CHOOSE v \in {ds[k].x : k \in 1..Len(ds)} :
                       \A k \in 1..Len(ds) : v <= ds[k].x
              ELSE 0,
     minY |-> IF \E k \in 1..Len(ds) : ds[k].y < 0
              THEN CHOOSE v \in {ds[k].y : k \in 1..Len(ds)} :
                       \A k \in 1..Len(ds) : v <= ds[k].y
              ELSE 0,
     maxX |-> IF \E k \in 1..Len(ds) : ds[k].x + ds[k].width > 0
              THEN CHOOSE v \in {ds[k].x + ds[k].width : k \in 1..Len(ds)} :
                       \A k \in 1..Len(ds) : v >= ds[k].x + ds[k].width
              ELSE 0,
     maxY |-> IF \E k \in 1..Len(ds) : ds[k].y + ds[k].height > 0
              THEN CHOOSE v \in {ds[k].y + ds[k].height : k \in 1..Len(ds)} :
                       \A k \in 1..Len(ds) : v >= ds[k].y + ds[k].height
              ELSE 0]

BoundingBox(ds) == BoxFrom(ds, 1, [minX |-> 0, minY |-> 0, maxX |-> 0, maxY |-> 0])

\* Math.round(n / d) for n >= 0, d > 0: the nearest integer, halves upwards.
\* The code rounds the double n1 * (n2 / d); for the display sizes and
\* resolutions used here that double rounds as the exact quotient does.
\* the fraction cut off
RoundDown(n, d) == n \div d

Round(n, d) == (2 * n + d) \div (2 * d)

\* getResolutionFromPreset, found in setupVideo, setupScene and processReplay
\* word for word
\* the presets as fixed 16:9 frames, whatever the native shape
GetResolutionFixedFrames(preset, customRes, nativeW, nativeH) ==
    CASE preset = "1080p" -> Res(1920, 1080)
      [] preset = "720p" -> Res(1280, 720)
      [] preset = "480p" -> Res(854, 480)
      [] preset = "custom" -> IF customRes = NoRes THEN Res(1920, 1080) ELSE customRes
      [] OTHER -> Res(nativeW, nativeH)

GetResolutionFromPreset(preset, customRes, nativeW, nativeH) ==
    CASE preset = "1080p" -> Res(Round(nativeW * 1080, nativeH), 1080)
      [] preset = "720p" -> Res(Round(nativeW * 720, nativeH), 720)
      [] preset = "480p" -> Res(Round(nativeW * 480, nativeH), 480)
      [] preset = "custom" -> IF customRes = NoRes THEN Res(1920, 1080) ELSE customRes
      [] OTHER -> Res(nativeW, nativeH)

\* the native rectangle of a display list and a resolution computed from it
Canvas(ds, preset, customRes) ==
    LET box == BoundingBox(ds)
    IN  [minX |-> box.minX, minY |-> box.minY,
         nativeWidth |-> box.maxX - box.minX,
         nativeHeight |-> box.maxY - box.minY,
         res |-> GetResolutionFromPreset(preset, customRes,
                                         box.maxX - box.minX, box.maxY - box.minY)]

\* setupVideo: the native rectangle of the enabled displays, Base and Output
SetupVideo(ds, enabled, st) ==
    LET act == ActiveDisplays(ds, enabled)
        cap == Canvas(act, st.captureResolution, st.customCaptureResolution)
        out == Canvas(act, st.outputResolution, st.customOutputResolution)
    IN  [minX |-> cap.minX, minY |-> cap.minY,
         nativeWidth |-> cap.nativeWidth, nativeHeight |-> cap.nativeHeight,
         captureRes |-> cap.res, outputRes |-> out.res]

\* ------------------------------------------------------------ setupScene
\* a number the code holds as a double: num / den
Frac(n, d) == [num |-> n, den |-> d]
\* no display skipped
ComposeSceneAll(ds, enabled) == IndexSeq(Len(ds))

\* allDisplays.forEach: one scene item per display that is not skipped
ComposeScene(ds, enabled) == SelectSeq(IndexSeq(Len(ds)), LAMBDA i : IsEnabled(enabled, i))
\* the item of display index i: source Monitor-i, positioned at
\* (bounds - origin) * scale and scaled from native to capture resolution
\* the position taken from the desktop origin, not from the canvas origin
SceneItemAbsolute(ds, i, cv) ==
    [monitor |-> i,
     posX |-> Frac(ds[i + 1].x * cv.res.width, cv.nativeWidth),
     posY |-> Frac(ds[i + 1].y * cv.res.height, cv.nativeHeight),
     scaleX |-> Frac(cv.res.width, cv.nativeWidth),
     scaleY |-> Frac(cv.res.height, cv.nativeHeight)]

SceneItem(ds, i, cv) ==
    [monitor |-> i,
     posX |-> Frac((ds[i + 1].x - cv.minX) * cv.res.width, cv.nativeWidth),
     posY |-> Frac((ds[i + 1].y - cv.minY) * cv.res.height, cv.nativeHeight),
     scaleX |-> Frac(cv.res.width, cv.nativeWidth),
     scaleY |-> Frac(cv.res.height, cv.nativeHeight)]
\* setupScene: a fresh scene whose native rectangle is that of the enabled
\* displays (all when none is enabled)
SetupScene(ds, enabled, st) ==
    LET cv == Canvas(ActiveDisplays(ds, enabled),
                     st.captureResolution, st.customCaptureResolution)
        idx == ComposeScene(ds, enabled)
    IN  [k \in 1..Len(idx) |-> SceneItem(ds, idx[k], cv)]

\* setupScene's audio part: the desktop-audio input and the microphone
\* input are created and each one obtained is set as an output source; a
\* creation that throws is caught and leaves that input out
AudioInputs(devs) ==
    (IF devs.desktop = "created" THEN << "Desktop Audio" >> ELSE << >>)
        \o (IF devs.microphone = "created" THEN << "Microphone" >> ELSE << >>)

\* ------------------------------------------------------------ initialize
\* one call of initialize or shutdown as its caller and the engine saw it:
\* the engine requests it made, in order, and what it handed back
Call(op, requests, result) == [op |-> op, engine |-> requests, returned |-> result]
\* the engine requests of an initialize call that found the init result 0,
\* and of one that found another result
InitRequests ==
    << "IPC.host", "OBS_API_initAPI", "connectOutputSignals", "setupVideo", "setupOutput",
       "setupScene", "startReplayBuffer" >>
InitFailedRequests == << "IPC.host", "OBS_API_initAPI" >>

\* initialize() past its first line: it hosts the IPC connection,
\* initializes the engine API and, when the result is 0, sets the flag,
\* connects the signal callback, configures video, output and scene and
\* requests the buffer start; another result is logged and nothing follows
InitializeEngine(initOk, startOutcome) ==
    /\ Len(signalQueue) < MaxQueue
    /\ ipcConnected' = TRUE
    /\ IF initOk
       THEN /\ initialized' = TRUE
            /\ video' = SetupVideo(displays, enabledMonitors, videoSettings)
            /\ scene' = SetupScene(displays, enabledMonitors, videoSettings)
            /\ audioSources' = AudioInputs(audioDevices)
            /\ engineState' = EngineAfterStart(engineState, startOutcome)
            /\ signalQueue' = signalQueue \o StartSignals(engineState, startOutcome)
            /\ callLog' = Append(callLog, Call("initialize", InitRequests, "undefined"))
       ELSE /\ callLog' = Append(callLog, Call("initialize", InitFailedRequests, "undefined"))
            /\ UNCHANGED << initialized, video, scene, engineState, signalQueue, audioSources >>

\* initialize without its first line
InitializeAlways(initOk, startOutcome) ==
    /\ Len(callLog) < MaxCalls
    /\ InitializeEngine(initOk, startOutcome)
    /\ UNCHANGED << obsLoaded, replayBufferRunning, isRestarting, pendingStopResolve,
                    pendingReplaySave, lastReplayPath, saveVars, restartVars,
                    engineWrites, engineLastReplay, displays, enabledMonitors, videoSettings,
                    splitVars, settingsVars, audioDevices, otherVars >>

\* initialize(): void. "if (this.initialized || !obs) return;" and then the
\* engine initialization. Every path returns undefined and none throws.
Initialize(initOk, startOutcome) ==
    /\ Len(callLog) < MaxCalls
    /\ IF initialized \/ ~obsLoaded
       THEN /\ callLog' = Append(callLog, Call("initialize", << >>, "undefined"))
            /\ UNCHANGED << initialized, video, scene, engineState, signalQueue,
                            audioSources, ipcConnected >>
       ELSE InitializeEngine(initOk, startOutcome)
    /\ UNCHANGED << obsLoaded, replayBufferRunning, isRestarting, pendingStopResolve,
                    pendingReplaySave, lastReplayPath, saveVars, restartVars,
                    engineWrites, engineLastReplay, displays, enabledMonitors, videoSettings,
                    splitVars, settingsVars, audioDevices, otherVars >>

\* the application's startup: whenReady calls initialize once, before any
\* other call on the controller
Startup(initOk, startOutcome) ==
    /\ callLog = << >>
    /\ Initialize(initOk, startOutcome)

\* ---------------------------------------------------------------- shutdown
\* shutdown(): it returns at once when the controller is not initialized or
\* the native module is not loaded; otherwise it requests a forced stop when
\* the running flag is set and disconnects the IPC connection, both in one
\* try block whose catch logs the error
ShutdownOutcomes == {"ok", "stopThrows", "disconnectThrows"}
ShutdownRequests(running, outcome) ==
    IF running /\ outcome = "stopThrows" THEN << "stopReplayBuffer" >>
    ELSE (IF running THEN << "stopReplayBuffer" >> ELSE << >>) \o << "IPC.disconnect" >>
Shutdown(outcome) ==
    /\ Len(callLog) < MaxCalls
    /\ IF ~initialized \/ ~obsLoaded
       THEN /\ callLog' = Append(callLog, Call("shutdown", << >>, "undefined"))
            /\ UNCHANGED << engineState, ipcConnected >>
       ELSE /\ callLog' = Append(callLog,
                   Call("shutdown", ShutdownRequests(replayBufferRunning, outcome), "undefined"))
            /\ engineState' = (IF replayBufferRunning
                               THEN EngineAfterStop(engineState, outcome = "stopThrows")
                               ELSE engineState)
            /\ ipcConnected' = (IF outcome = "ok" THEN FALSE ELSE ipcConnected)
    /\ UNCHANGED << ctlVars, saveVars, restartVars, engineWrites, engineLastReplay, signalQueue,
                    cfgVars, splitVars, settingsVars, audioVars, otherVars >>

\* ------------------------------------------------------ stopReplayBuffer
StopReplayBuffer(throws) ==
    /\ replayBufferRunning /\ obsLoaded
    /\ engineState' = EngineAfterStop(engineState, throws)
    /\ UNCHANGED << ctlVars, saveVars, restartVars, engineWrites, engineLastReplay,
                    signalQueue, cfgVars, splitVars, settingsVars, audioVars, lifeVars, otherVars >>

\* startReplayBufferPublic (called by toggleReplayBuffer): the public door
\* to startReplayBuffer
StartReplayBufferPublic(startOutcome) ==
    /\ initialized /\ obsLoaded
    /\ ~replayBufferRunning
    /\ Len(signalQueue) < MaxQueue
    /\ engineState' = EngineAfterStart(engineState, startOutcome)
    /\ signalQueue' = signalQueue \o StartSignals(engineState, startOutcome)
    /\ UNCHANGED << ctlVars, saveVars, restartVars, engineWrites, engineLastReplay, cfgVars, splitVars, settingsVars, audioVars, lifeVars, otherVars >>

\* ------------------------------------------------------ saveReplayBuffer
\* the check of the running flag left out
SavePreconditionNoRunning == initialized /\ obsLoaded

SavePrecondition == initialized /\ obsLoaded /\ replayBufferRunning
PreconditionError ==
    IF ~(initialized /\ obsLoaded) THEN "OBS not initialized" ELSE "Replay buffer is not running"

SaveReplayBuffer(s, triggerThrows) ==
    /\ savePromise[s].state = "none"
    /\ \A t \in SaveIds : t < s => savePromise[t].state # "none"
    /\ IF ~SavePrecondition
       THEN /\ savePromise' = [savePromise EXCEPT ![s] = Rejected(PreconditionError)]
            /\ settleCalls' = [settleCalls EXCEPT ![s] = 1]
            /\ UNCHANGED << pendingReplaySave, saveTimer, engineWrites >>
       ELSE IF triggerThrows
       THEN /\ pendingReplaySave' = 0
            /\ saveTimer' = [saveTimer EXCEPT ![s] = "cleared"]
            /\ savePromise' = [savePromise EXCEPT ![s] = Rejected("engine error")]
            /\ settleCalls' = [settleCalls EXCEPT ![s] = 1]
            /\ UNCHANGED engineWrites
       ELSE /\ pendingReplaySave' = s
            /\ saveTimer' = [saveTimer EXCEPT ![s] = "armed"]
            /\ savePromise' = [savePromise EXCEPT ![s] = Pending]
            /\ engineWrites' = Append(engineWrites, s)
            /\ UNCHANGED settleCalls
    /\ UNCHANGED << obsLoaded, initialized, replayBufferRunning, isRestarting,
                    pendingStopResolve, lastReplayPath, restartVars, engineState,
                    engineLastReplay, signalQueue, cfgVars, splitVars, settingsVars, audioVars, lifeVars, otherVars >>

\* the order of the three steps of the promise executor, by their kind;
\* first the order with the trigger ahead of the registration
SaveOrderTriggerFirst == << "trigger", "arm", "register" >>

\* const timeout = setTimeout(...); this.pendingReplaySave = {...};
\* try { OBS_service_processReplayBufferHotkey() }
SaveOrder == << "arm", "register", "trigger" >>
\* step a stands before step b in the executor
StepBefore(order, a, b) ==
    \E i, j \in DOMAIN order : order[i] = a /\ order[j] = b /\ i < j

\* the timeout callback rejecting without "this.pendingReplaySave = null"
SaveTimeoutSlotKept(s) ==
    /\ saveTimer[s] = "armed"
    /\ \A t \in SaveIds : t < s => saveTimer[t] # "armed"
    /\ saveTimer' = [saveTimer EXCEPT ![s] = "fired"]
    /\ IF pendingReplaySave # 0
       THEN /\ savePromise' = [savePromise EXCEPT
                   ![s] = Settle(@, Rejected("Replay save timeout - no response from OBS"))]
            /\ settleCalls' = [settleCalls EXCEPT ![s] = @ + 1]
            /\ UNCHANGED pendingReplaySave
       ELSE UNCHANGED << pendingReplaySave, savePromise, settleCalls >>
    /\ UNCHANGED << obsLoaded, initialized, replayBufferRunning, isRestarting,
                    pendingStopResolve, lastReplayPath, restartVars, engineVars, cfgVars,
                    splitVars, settingsVars, audioVars, lifeVars, otherVars >>

\* the setTimeout callback of save call s; timers of equal delay fire in the
\* order they were armed
SaveTimeout(s) ==
    /\ saveTimer[s] = "armed"
    /\ \A t \in SaveIds : t < s => saveTimer[t] # "armed"
    /\ saveTimer' = [saveTimer EXCEPT ![s] = "fired"]
    /\ IF pendingReplaySave # 0
       THEN /\ pendingReplaySave' = 0
            /\ savePromise' = [savePromise EXCEPT
                   ![s] = Settle(@, Rejected("Replay save timeout - no response from OBS"))]
            /\ settleCalls' = [settleCalls EXCEPT ![s] = @ + 1]
       ELSE UNCHANGED << pendingReplaySave, savePromise, settleCalls >>
    /\ UNCHANGED << obsLoaded, initialized, replayBufferRunning, isRestarting,
                    pendingStopResolve, lastReplayPath, restartVars, engineVars, cfgVars, splitVars, settingsVars, audioVars, lifeVars, otherVars >>

\* ------------------------------------------------ restartWithNewSettings
\* The tail of restartWithNewSettings, from "Re-apply settings" on: it runs
\* in one task, either right after the guard is set (buffer not running) or
\* after the 200 ms delay.
\* the guard cleared before the start request
TailStepsGuardFirst == << "config", "clear", "start" >>

TailSteps == << "config", "start", "clear" >>

\* the first line of restartWithNewSettings passing on any controller
RestartPreconditionNone == TRUE

\* if (!this.initialized || !obs) return;
RestartPrecondition == initialized /\ obsLoaded

\* restartWithNewSettings up to its first await
RestartBegin(r, stopThrows, startOutcome) ==
    /\ restartPc[r] = "idle"
    /\ \A q \in RestartIds : q < r => restartPc[q] # "idle"
    /\ Len(signalQueue) < MaxQueue
    /\ IF ~RestartPrecondition
       THEN /\ restartPc' = [restartPc EXCEPT ![r] = "returned"]
            /\ UNCHANGED << isRestarting, pendingStopResolve, stopPromise, restartLog,
                            engineState, signalQueue, video, scene, audioSources >>
       ELSE IF replayBufferRunning
       THEN /\ isRestarting' = TRUE
            /\ pendingStopResolve' = r
            /\ stopPromise' = [stopPromise EXCEPT ![r] = "pending"]
            /\ engineState' = EngineAfterStop(engineState, stopThrows)
            /\ restartPc' = [restartPc EXCEPT ![r] = IF stopThrows THEN "failed" ELSE "awaitStop"]
            /\ restartLog' = [restartLog EXCEPT
                   ![r] = IF stopThrows THEN << "guard", "stop" >> ELSE << "guard", "stop", "wait" >>]
            /\ UNCHANGED << signalQueue, video, scene, audioSources >>
       ELSE /\ isRestarting' = FALSE
            /\ video' = SetupVideo(displays, enabledMonitors, videoSettings)
            /\ scene' = SetupScene(displays, enabledMonitors, videoSettings)
            /\ audioSources' = AudioInputs(audioDevices)
            /\ engineState' = EngineAfterStart(engineState, startOutcome)
            /\ signalQueue' = signalQueue \o StartSignals(engineState, startOutcome)
            /\ restartPc' = [restartPc EXCEPT ![r] = "done"]
            /\ restartLog' = [restartLog EXCEPT ![r] = << "guard" >> \o TailSteps]
            /\ UNCHANGED << pendingStopResolve, stopPromise >>
    /\ UNCHANGED << obsLoaded, initialized, replayBufferRunning, pendingReplaySave,
                    lastReplayPath, saveVars, engineWrites, engineLastReplay,
                    displays, enabledMonitors, videoSettings, splitVars, settingsVars,
                    audioDevices, lifeVars, otherVars >>

\* the wait without its timer: only a Stop signal ends it
StopWaitForever(r) ==
    /\ restartPc[r] = "awaitStop"
    /\ UNCHANGED vars

\* the 2 s timer wins Promise.race; the continuation clears the resolver and
\* starts the 200 ms delay
StopWaitTimeout(r) ==
    /\ restartPc[r] = "awaitStop"
    /\ restartPc' = [restartPc EXCEPT ![r] = "delay"]
    /\ pendingStopResolve' = 0
    /\ UNCHANGED << obsLoaded, initialized, replayBufferRunning, isRestarting,
                    pendingReplaySave, lastReplayPath, saveVars, stopPromise, restartLog,
                    engineVars, cfgVars, splitVars, settingsVars, audioVars, lifeVars, otherVars >>

\* after the 200 ms delay: re-apply settings, start, clear the guard
RestartResume(r, startOutcome) ==
    /\ restartPc[r] = "delay"
    /\ Len(signalQueue) < MaxQueue
    /\ video' = SetupVideo(displays, enabledMonitors, videoSettings)
    /\ scene' = SetupScene(displays, enabledMonitors, videoSettings)
    /\ audioSources' = AudioInputs(audioDevices)
    /\ engineState' = EngineAfterStart(engineState, startOutcome)
    /\ signalQueue' = signalQueue \o StartSignals(engineState, startOutcome)
    /\ isRestarting' = FALSE
    /\ restartPc' = [restartPc EXCEPT ![r] = "done"]
    /\ restartLog' = [restartLog EXCEPT ![r] = @ \o TailSteps]
    /\ UNCHANGED << obsLoaded, initialized, replayBufferRunning, pendingStopResolve,
                    pendingReplaySave, lastReplayPath, saveVars, stopPromise,
                    engineWrites, engineLastReplay, displays, enabledMonitors, videoSettings, splitVars, settingsVars,
                    audioDevices, lifeVars, otherVars >>

\* ---------------------------------------------------- handleOutputSignal
\* case Stop
OnStop ==
    /\ IF pendingStopResolve # 0
       THEN /\ stopPromise' = [stopPromise EXCEPT ![pendingStopResolve] = "resolved"]
            \* the awaiting invocation continues before any other task
            /\ IF restartPc[pendingStopResolve] = "awaitStop"
               THEN /\ restartPc' = [restartPc EXCEPT ![pendingStopResolve] = "delay"]
                    /\ pendingStopResolve' = 0
               ELSE UNCHANGED << restartPc, pendingStopResolve >>
            /\ UNCHANGED replayBufferRunning
       ELSE /\ replayBufferRunning' = (IF ~isRestarting THEN FALSE ELSE replayBufferRunning)
            /\ UNCHANGED << stopPromise, restartPc, pendingStopResolve >>
    /\ UNCHANGED << pendingReplaySave, lastReplayPath, saveVars >>

\* the path the Wrote case ends with: renamed when the file name starts with
\* "Replay" and the rename went through
ReportedPath(p, renameOk) == IF StartsWithReplay(p) /\ renameOk THEN RenamedPath(p) ELSE p

\* the wrappers without "this.pendingReplaySave = null" after them
PendingSettledSlotKept(outcome) ==
    /\ saveTimer' = [saveTimer EXCEPT ![pendingReplaySave] = ClearTimeout(@)]
    /\ savePromise' = [savePromise EXCEPT ![pendingReplaySave] = Settle(@, outcome)]
    /\ settleCalls' = [settleCalls EXCEPT ![pendingReplaySave] = @ + 1]
    /\ pendingReplaySave' = pendingReplaySave

\* the pending operation's resolve / reject wrappers
PendingSettled(outcome) ==
    /\ saveTimer' = [saveTimer EXCEPT ![pendingReplaySave] = ClearTimeout(@)]
    /\ savePromise' = [savePromise EXCEPT ![pendingReplaySave] = Settle(@, outcome)]
    /\ settleCalls' = [settleCalls EXCEPT ![pendingReplaySave] = @ + 1]
    /\ pendingReplaySave' = 0

\* case Wrote
OnWrote(getOk, renameOk) ==
    /\ IF getOk
       THEN /\ lastReplayPath' = ReportedPath(engineLastReplay, renameOk)
            /\ IF pendingReplaySave # 0
               THEN PendingSettled(Resolved(ReportedPath(engineLastReplay, renameOk)))
               ELSE UNCHANGED << pendingReplaySave, saveVars >>
       ELSE /\ UNCHANGED lastReplayPath
            /\ IF pendingReplaySave # 0
               THEN PendingSettled(Rejected("Failed to get replay path"))
               ELSE UNCHANGED << pendingReplaySave, saveVars >>
    /\ UNCHANGED << replayBufferRunning, pendingStopResolve, stopPromise, restartPc >>

\* the engine's message dropped
WriteErrorMessageDropped(e) == "Write error"

\* signalInfo.error || 'Write error'
WriteErrorMessage(e) == IF e = "" THEN "Write error" ELSE e

\* case WriteError
OnWriteError(e) ==
    /\ IF pendingReplaySave # 0
       THEN PendingSettled(Rejected(WriteErrorMessage(e)))
       ELSE UNCHANGED << pendingReplaySave, saveVars >>
    /\ UNCHANGED << replayBufferRunning, lastReplayPath, pendingStopResolve, stopPromise,
                    restartPc >>

\* what the signal callback settles a pending save with
AnswerOutcome(answer, p, getOk, renameOk) ==
    IF answer = "wrote"
    THEN (IF getOk THEN Resolved(ReportedPath(p, renameOk))
          ELSE Rejected("Failed to get replay path"))
    ELSE Rejected(WriteErrorMessage(""))

\* saveReplayBuffer when the engine emits the Wrote or WriteError signal
\* inside the trigger call, so that the signal callback runs before the
\* trigger returns: the callback sees the slot as the executor's steps
\* ahead of the trigger left it
SaveReplayBufferSync(s, answer, p, getOk, renameOk) ==
    /\ savePromise[s].state = "none"
    /\ \A t \in SaveIds : t < s => savePromise[t].state # "none"
    /\ SavePrecondition
    /\ engineSyncAnswers' = engineSyncAnswers \cup {s}
    /\ engineLastReplay' = (IF answer = "wrote" THEN p ELSE engineLastReplay)
    /\ lastReplayPath' = (IF answer = "wrote" /\ getOk THEN ReportedPath(p, renameOk)
                          ELSE lastReplayPath)
    /\ IF StepBefore(SaveOrder, "register", "trigger")
       THEN /\ pendingReplaySave' = 0
            /\ saveTimer' = [saveTimer EXCEPT ![s] = "cleared"]
            /\ savePromise' = [savePromise EXCEPT
                                  ![s] = AnswerOutcome(answer, p, getOk, renameOk)]
            /\ settleCalls' = [settleCalls EXCEPT ![s] = 1]
       ELSE /\ pendingReplaySave' = s
            /\ IF pendingReplaySave # 0
               THEN /\ saveTimer' = [saveTimer EXCEPT ![pendingReplaySave] = ClearTimeout(@),
                                                     ![s] = "armed"]
                    /\ savePromise' = [savePromise EXCEPT
                           ![pendingReplaySave] =
                               Settle(@, AnswerOutcome(answer, p, getOk, renameOk)),
                           ![s] = Pending]
                    /\ settleCalls' = [settleCalls EXCEPT ![pendingReplaySave] = @ + 1]
               ELSE /\ saveTimer' = [saveTimer EXCEPT ![s] = "armed"]
                    /\ savePromise' = [savePromise EXCEPT ![s] = Pending]
                    /\ UNCHANGED settleCalls
    /\ UNCHANGED << obsLoaded, initialized, replayBufferRunning, isRestarting,
                    pendingStopResolve, restartVars, engineState, engineWrites, signalQueue,
                    cfgVars, splitVars, settingsVars, audioVars, lifeVars, engineOtherSignals >>

\* the switch entered for a signal of any output
ActsOnAny(sig) == TRUE

\* if (signalInfo.type === EOBSOutputType.ReplayBuffer)
ActsOn(sig) == sig.type = "replay-buffer"

HandleOutputSignal(sig, getOk, renameOk) ==
    /\ IF ~ActsOn(sig)
       THEN UNCHANGED << replayBufferRunning, pendingStopResolve, pendingReplaySave,
                         lastReplayPath, saveVars, stopPromise, restartPc >>
       ELSE CASE sig.signal = "start" ->
                    /\ replayBufferRunning' = TRUE
                    /\ UNCHANGED << pendingStopResolve, pendingReplaySave, lastReplayPath,
                                    saveVars, stopPromise, restartPc >>
              [] sig.signal = "stop" -> OnStop
              [] sig.signal = "wrote" -> OnWrote(getOk, renameOk)
              [] sig.signal = "writing_error" -> OnWriteError(sig.error)
    /\ UNCHANGED << obsLoaded, initialized, isRestarting, restartLog >>

\* the callback connected by setupOutputSignals runs for the oldest signal
DeliverSignal(getOk, renameOk) ==
    /\ signalQueue # << >>
    /\ HandleOutputSignal(Head(signalQueue), getOk, renameOk)
    /\ signalQueue' = Tail(signalQueue)
    /\ UNCHANGED << engineState, engineWrites, engineLastReplay, cfgVars, splitVars, settingsVars, audioVars, lifeVars, otherVars >>

\* -------------------------------------------------- the engine's own steps
\* a stopping buffer has stopped; a start request it accepted meanwhile
\* takes effect
EngineStopped ==
    /\ engineState \in {"stopping", "restarting"}
    /\ Len(signalQueue) + (IF engineState = "restarting" THEN 2 ELSE 1) <= MaxQueue
    /\ engineState' = (IF engineState = "restarting" THEN "active" ELSE "inactive")
    /\ signalQueue' = signalQueue \o << Signal("replay-buffer", "stop", "", 0) >>
                          \o (IF engineState = "restarting"
                              THEN << Signal("replay-buffer", "start", "", 0) >> ELSE << >>)
    /\ UNCHANGED << ctlVars, saveVars, restartVars, engineWrites, engineLastReplay, cfgVars, splitVars, settingsVars, audioVars, lifeVars, otherVars >>

\* the engine's streaming or recording output emits a signal: the callback
\* connected by setupOutputSignals receives the signals of every output
OtherOutputTypes == {"streaming", "recording"}
OutputSignals == {"start", "stop", "wrote", "writing_error"}
EngineOtherSignal(t, s) ==
    /\ initialized
    /\ engineOtherSignals < MaxOtherSignals
    /\ Len(signalQueue) < MaxQueue
    /\ signalQueue' = Append(signalQueue, Signal(t, s, "", 0))
    /\ engineOtherSignals' = engineOtherSignals + 1
    /\ UNCHANGED engineSyncAnswers
    /\ UNCHANGED << ctlVars, saveVars, restartVars, engineState, engineWrites,
                    engineLastReplay, cfgVars, splitVars, settingsVars, audioVars, lifeVars >>

\* the engine answers the oldest save trigger: the file was written
EngineWrote(p) ==
    /\ engineWrites # << >>
    /\ Len(signalQueue) < MaxQueue
    /\ engineLastReplay' = p
    /\ engineWrites' = Tail(engineWrites)
    /\ signalQueue' = Append(signalQueue, Signal("replay-buffer", "wrote", "", Head(engineWrites)))
    /\ UNCHANGED << ctlVars, saveVars, restartVars, engineState, cfgVars, splitVars, settingsVars, audioVars, lifeVars, otherVars >>

\* the engine answers the oldest save trigger: writing failed
EngineWriteError(e) ==
    /\ engineWrites # << >>
    /\ Len(signalQueue) < MaxQueue
    /\ engineWrites' = Tail(engineWrites)
    /\ signalQueue' = Append(signalQueue,
                             Signal("replay-buffer", "writing_error", e, Head(engineWrites)))
    /\ UNCHANGED << ctlVars, saveVars, restartVars, engineState, engineLastReplay, cfgVars, splitVars, settingsVars, audioVars, lifeVars, otherVars >>

\* ---------------------------------------------------------- processReplay
\* target 'all': displays.map((_, i) => i), filtered by enabledMonitors when
\* it is defined
MonitorsToProcess(ds, enabled) ==
    IF enabled.defined
    THEN SelectSeq(IndexSeq(Len(ds)), LAMBDA i : Includes(enabled.list, i))
    ELSE IndexSeq(Len(ds))

Started(cs) == {i \in DOMAIN cs : cs[i] # "none"}

\* the native rectangle of every display getMonitors() returns, and the
\* output resolution computed from it
ProcCanvas(ds, st) == Canvas(ds, st.outputResolution, st.customOutputResolution)

\* the crop in native pixels, not scaled to the output frame
CropRectNative(ds, i, cv) ==
    [x |-> ds[i + 1].x - cv.minX, y |-> ds[i + 1].y - cv.minY,
     w |-> ds[i + 1].width, h |-> ds[i + 1].height]

\* the crop taken from the desktop origin, not from the canvas origin
CropRectAbsolute(ds, i, cv) ==
    [x |-> Round(ds[i + 1].x * cv.res.width, cv.nativeWidth),
     y |-> Round(ds[i + 1].y * cv.res.height, cv.nativeHeight),
     w |-> Round(ds[i + 1].width * cv.res.width, cv.nativeWidth),
     h |-> Round(ds[i + 1].height * cv.res.height, cv.nativeHeight)]

\* cropX, cropY, cropW, cropH of processOne(i)
CropRect(ds, i, cv) ==
    [x |-> Round((ds[i + 1].x - cv.minX) * cv.res.width, cv.nativeWidth),
     y |-> Round((ds[i + 1].y - cv.minY) * cv.res.height, cv.nativeHeight),
     w |-> Round(ds[i + 1].width * cv.res.width, cv.nativeWidth),
     h |-> Round(ds[i + 1].height * cv.res.height, cv.nativeHeight)]

\* ${index + 1} as text
Decimal(n) == << "1", "2", "3", "4", "5", "6", "7", "8", "9" >>[n]
\* the position of the last "." of f, 0 when it has none
LastDot(f) ==
    IF \E k \in 1..Len(f) : f[k] = "."
    THEN CHOOSE k \in 1..Len(f) : f[k] = "." /\ \A j \in (k + 1)..Len(f) : f[j] # "."
    ELSE 0
\* filePath.replace(/(\.[^.]+)$/, `-monitor-${index + 1}$1`): the tag goes in
\* front of the last "." when characters follow it; otherwise nothing is
\* replaced
\* the tag put behind the whole path
OutputNameAppended(f, index) == f \o << "-monitor-", Decimal(index + 1) >>

OutputName(f, index) ==
    IF LastDot(f) = 0 \/ LastDot(f) = Len(f) THEN f
    ELSE SubSeq(f, 1, LastDot(f) - 1) \o << "-monitor-", Decimal(index + 1) >>
             \o SubSeq(f, LastDot(f), Len(f))

\* what processOne(i) hands to the transcoder
CropJob(ds, i, cv, f) == [crop |-> CropRect(ds, i, cv), output |-> OutputName(f, i)]

\* await Promise.all(crops) (and await processOne(i), its one-crop case):
\* rejected as soon as one crop has failed, fulfilled once all have succeeded
AwaitCrops(cs) ==
    IF \E i \in Started(cs) : cs[i] = "failed" THEN "rejected"
    ELSE IF \A i \in Started(cs) : cs[i] = "ok" THEN "resolved"
    ELSE "cropping"

\* the source file deleted whenever the call settles
SourceAfterAlways(st, unlinkOk, file) ==
    IF st \in {"resolved", "rejected"} /\ unlinkOk THEN "deleted" ELSE file

\* fs.unlinkSync(filePath) in its try/catch stands after the await: it runs
\* when the await was fulfilled, and a failing unlink leaves the file
SourceAfter(st, unlinkOk, file) ==
    IF st = "resolved" /\ unlinkOk THEN "deleted" ELSE file

\* the existence check passing whatever is on disk
FileExistsAlways(file) == TRUE

\* fs.existsSync(filePath)
FileExists(file) == file = "present"

\* processReplay up to its await
ProcessReplay(target, unlinkOk) ==
    /\ procState = "idle"
    /\ procTarget' = target
    /\ IF ~FileExists(sourceFile)
       THEN /\ procState' = "rejected"
            /\ procError' = "Replay file not found"
            /\ UNCHANGED << cropState, cropJob, procCanvas, sourceFile >>
       ELSE IF ~target.all /\ target.index >= Len(displays)
       THEN /\ procState' = "rejected"
            /\ procError' = "Monitor not found"
            /\ procCanvas' = ProcCanvas(displays, videoSettings)
            /\ UNCHANGED << cropState, cropJob, sourceFile >>
       ELSE LET ms == IF target.all THEN MonitorsToProcess(displays, enabledMonitors)
                      ELSE << target.index >>
                cs == [i \in DisplayIndices |-> IF Includes(ms, i) THEN "running" ELSE "none"]
            IN  /\ procCanvas' = ProcCanvas(displays, videoSettings)
                /\ cropState' = cs
                /\ cropJob' = [i \in DisplayIndices |->
                                  IF Includes(ms, i)
                                  THEN CropJob(displays, i, ProcCanvas(displays, videoSettings),
                                               filePath)
                                  ELSE NoJob]
                /\ procState' = AwaitCrops(cs)
                /\ sourceFile' = SourceAfter(AwaitCrops(cs), unlinkOk, sourceFile)
                /\ UNCHANGED procError
    /\ UNCHANGED << filePath, ctlVars, saveVars, restartVars, engineVars, cfgVars,
                    settingsVars, audioVars, lifeVars, otherVars >>

\* the transcoder run of display i ends ('end') or fails ('error'); the
\* awaiting processReplay continues when that settles its await
CropFinished(i, ok, unlinkOk) ==
    /\ cropState[i] = "running"
    /\ cropState' = [cropState EXCEPT ![i] = IF ok THEN "ok" ELSE "failed"]
    /\ IF procState = "cropping"
       THEN /\ procState' = AwaitCrops(cropState')
            /\ procError' = IF AwaitCrops(cropState') = "rejected" THEN "ffmpeg error" ELSE procError
            /\ sourceFile' = SourceAfter(AwaitCrops(cropState'), unlinkOk, sourceFile)
       ELSE UNCHANGED << procState, procError, sourceFile >>
    /\ UNCHANGED << filePath, procTarget, cropJob, procCanvas, ctlVars, saveVars, restartVars,
                    engineVars, cfgVars, settingsVars, audioVars, lifeVars, otherVars >>

\* ------------------------------------------------------- specifications
\* The lifecycle (initialize, pause, resume, restart, Start/Stop signals).
NextLife ==
    \/ \E ok \in BOOLEAN, o \in StartOutcomes : Startup(ok, o)
    \/ \E t \in BOOLEAN : StopReplayBuffer(t)
    \/ \E o \in StartOutcomes : StartReplayBufferPublic(o)
    \/ \E r \in RestartIds, t \in BOOLEAN, o \in StartOutcomes : RestartBegin(r, t, o)
    \/ \E r \in RestartIds : StopWaitTimeout(r)
    \/ \E r \in RestartIds, o \in StartOutcomes : RestartResume(r, o)
    \/ \E g, n \in BOOLEAN : DeliverSignal(g, n)
    \/ EngineStopped

Spec == Init /\ [][NextLife]_vars

\* The save correlator (save requests, their timeouts, Wrote/WriteError
\* signals) on a controller that is initialized, paused and resumed.
NextSave ==
    \/ \E ok \in BOOLEAN, o \in StartOutcomes : Startup(ok, o)
    \/ \E t \in BOOLEAN : StopReplayBuffer(t)
    \/ \E o \in StartOutcomes : StartReplayBufferPublic(o)
    \/ \E s \in SaveIds, t \in BOOLEAN : SaveReplayBuffer(s, t)
    \/ \E s \in SaveIds : SaveTimeout(s)
    \/ \E g, n \in BOOLEAN : DeliverSignal(g, n)
    \/ EngineStopped
    \/ \E p \in EnginePaths : EngineWrote(p)
    \/ \E e \in EngineErrors : EngineWriteError(e)

InitSave == Init /\ Len(displays) = 2 /\ enabledMonitors = Undefined

SpecSave == InitSave /\ [][NextSave]_vars

\* The save correlator with an engine that may answer a save trigger before
\* the trigger call returns
NextSaveSync ==
    \/ \E ok \in BOOLEAN, o \in StartOutcomes : Startup(ok, o)
    \/ \E s \in SaveIds, t \in BOOLEAN : SaveReplayBuffer(s, t)
    \/ \E s \in SaveIds, a \in {"wrote", "writing_error"}, p \in EnginePaths,
          g, n \in BOOLEAN : SaveReplayBufferSync(s, a, p, g, n)
    \/ \E s \in SaveIds : SaveTimeout(s)
    \/ \E g, n \in BOOLEAN : DeliverSignal(g, n)
    \/ \E p \in EnginePaths : EngineWrote(p)
    \/ \E er \in EngineErrors : EngineWriteError(er)
SpecSaveSync == InitSave /\ [][NextSaveSync]_vars

\* The same with the event loop's guarantees: an armed timer's callback runs
\* (setTimeout, 10 s) and a signal the engine emitted reaches the callback.
\* The engine is not bound to answer a save trigger.
SaveFairness ==
    /\ \A s \in SaveIds : WF_vars(SaveTimeout(s))
    /\ WF_vars(\E g, n \in BOOLEAN : DeliverSignal(g, n))
SpecSaveFair == InitSave /\ [][NextSave]_vars /\ SaveFairness

\* Restarts and the engine alone: nobody pauses or resumes the buffer.
NextRace ==
    \/ \E ok \in BOOLEAN, o \in StartOutcomes : Startup(ok, o)
    \/ \E r \in RestartIds, t \in BOOLEAN, o \in StartOutcomes : RestartBegin(r, t, o)
    \/ \E r \in RestartIds : StopWaitTimeout(r)
    \/ \E r \in RestartIds, o \in StartOutcomes : RestartResume(r, o)
    \/ \E g, n \in BOOLEAN : DeliverSignal(g, n)
    \/ EngineStopped

SpecRace == Init /\ [][NextRace]_vars

\* The same with the event loop's guarantees: the 2 s and 200 ms timers of
\* a waiting restart run and an emitted signal reaches the callback. The
\* engine is not bound to stop or to emit anything.
\* The fairness of the 200 ms continuation is weak fairness of
\* RestartResume(r, o) over its outcomes o, written out: ResumeEnabled is its
\* enabling condition and ResumeStep picks out its steps.
ResumeEnabled(r) == restartPc[r] = "delay" /\ Len(signalQueue) < MaxQueue
ResumeStep(r) == restartPc[r] = "delay" /\ restartPc'[r] = "done"
RaceFairness ==
    /\ \A r \in RestartIds : WF_vars(StopWaitTimeout(r))
    /\ \A r \in RestartIds : []<>(~ResumeEnabled(r)) \/ []<><<ResumeStep(r)>>_vars
    /\ WF_vars(\E g, n \in BOOLEAN : DeliverSignal(g, n))
SpecRaceFair == Init /\ [][NextRace]_vars /\ RaceFairness

\* The post-capture splitter and the transcoder, for a replay recorded by a
\* controller initialized under the same displays and settings.
NextSplit ==
    \/ \E o \in StartOutcomes : Startup(TRUE, o)
    \/ \E t \in Targets, u \in BOOLEAN : ProcessReplay(t, u)
    \/ \E i \in DisplayIndices, ok, u \in BOOLEAN : CropFinished(i, ok, u)

InitSplit ==
    /\ InitManager
    /\ appSettings = StartupSettings
    /\ audioDevices = AudioDevices("created", "created")
    /\ obsLoaded = TRUE
    /\ displays \in SplitLayouts
    /\ enabledMonitors \in EnabledChoices
    /\ videoSettings \in VideoSettingsChoices
    /\ filePath \in ReplayFiles
    /\ sourceFile \in {"present", "absent"}
    /\ settingsFile = Stored(appSettings, enabledMonitors, videoSettings)
    /\ settingsCalls = << >>

SpecSplit == InitSplit /\ [][NextSplit]_vars

\* The canvas geometry: setupVideo and setupScene, as initialize runs them,
\* over display layouts, enabled-monitor lists and resolution settings.
NextGeom ==
    \E ok \in BOOLEAN, o \in StartOutcomes : Startup(ok, o)

InitGeom ==
    /\ InitManager
    /\ appSettings = StartupSettings
    /\ audioDevices = AudioDevices("created", "created")
    /\ obsLoaded = TRUE
    /\ displays \in GeomLayouts
    /\ enabledMonitors \in GeomEnabledChoices
    /\ videoSettings \in VideoSettingsChoices
    /\ filePath = DefaultReplayFile
    /\ sourceFile = "present"
    /\ settingsFile = Stored(appSettings, enabledMonitors, videoSettings)
    /\ settingsCalls = << >>

SpecGeom == InitGeom /\ [][NextGeom]_vars

\* ------------------------------------------------------- SettingsManager
\* one call on the settings manager: the settings and the file it found,
\* and whether its writeFileSync went through
SettingsCall(op, wrote) ==
    [op |-> op, before |-> Stored(appSettings, enabledMonitors, videoSettings),
     fileBefore |-> settingsFile, wrote |-> wrote]
\* saveSettings(): JSON of this.settings written to the file; a write that
\* throws is caught and logged, the file keeps what it held
SaveSettings(app, en, vs, writeOk) == IF writeOk THEN Stored(app, en, vs) ELSE settingsFile

\* setSetting(key, value): this.settings[key] = value; this.saveSettings()
SetSetting(kv, writeOk) ==
    /\ Len(settingsCalls) < MaxSettingsCalls
    /\ appSettings' = (IF kv[1] \in AppKeys THEN [appSettings EXCEPT ![kv[1]] = kv[2]]
                       ELSE appSettings)
    /\ enabledMonitors' = (IF kv[1] = "enabledMonitors" THEN kv[2] ELSE enabledMonitors)
    /\ videoSettings' = (IF kv[1] = "outputResolution"
                         THEN [videoSettings EXCEPT !.outputResolution = kv[2]]
                         ELSE videoSettings)
    /\ settingsFile' = SaveSettings(appSettings', enabledMonitors', videoSettings', writeOk)
    /\ settingsCalls' = Append(settingsCalls, SettingsCall("setSetting", writeOk))
    /\ UNCHANGED << ctlVars, saveVars, restartVars, engineVars, scene, displays, video,
                    splitVars, audioVars, lifeVars, otherVars >>

\* the reset that takes recordingPath from defaultSettings too
ResetToDefaultsAll(writeOk) ==
    /\ Len(settingsCalls) < MaxSettingsCalls
    /\ appSettings' = defaultSettings
    /\ enabledMonitors' = Undefined
    /\ videoSettings' = DefaultVideoSettings
    /\ settingsFile' = SaveSettings(appSettings', enabledMonitors', videoSettings', writeOk)
    /\ settingsCalls' = Append(settingsCalls, SettingsCall("resetToDefaults", writeOk))
    /\ UNCHANGED << ctlVars, saveVars, restartVars, engineVars, scene, displays, video,
                    splitVars, audioVars, lifeVars, otherVars >>

\* resetToDefaults(): this.settings = { ...defaultSettings, recordingPath:
\* currentPath }; this.saveSettings(). The keys defaultSettings does not
\* have are gone from the new object.
ResetToDefaults(writeOk) ==
    /\ Len(settingsCalls) < MaxSettingsCalls
    /\ appSettings' = [defaultSettings EXCEPT !.recordingPath = appSettings.recordingPath]
    /\ enabledMonitors' = Undefined
    /\ videoSettings' = DefaultVideoSettings
    /\ settingsFile' = SaveSettings(appSettings', enabledMonitors', videoSettings', writeOk)
    /\ settingsCalls' = Append(settingsCalls, SettingsCall("resetToDefaults", writeOk))
    /\ UNCHANGED << ctlVars, saveVars, restartVars, engineVars, scene, displays, video,
                    splitVars, audioVars, lifeVars, otherVars >>

NextSettings ==
    \/ \E kv \in SettingValues, w \in BOOLEAN : SetSetting(kv, w)
    \/ \E w \in BOOLEAN : ResetToDefaults(w)
SpecSettings == Init /\ [][NextSettings]_vars

\* ------------------------------------------------- lifecycle calls
\* initialize and shutdown called at any time and any number of times, with
\* the engine's signals in between
NextBoot ==
    \/ \E ok \in BOOLEAN, o \in StartOutcomes : Initialize(ok, o)
    \/ \E out \in ShutdownOutcomes : Shutdown(out)
    \/ \E t \in BOOLEAN : StopReplayBuffer(t)
    \/ \E g, n \in BOOLEAN : DeliverSignal(g, n)
    \/ EngineStopped
SpecBoot == Init /\ [][NextBoot]_vars

\* ------------------------------------------------- foreign signals
\* one save, one settings restart and the engine's replay-buffer signals,
\* with signals of the streaming and recording outputs arriving in between
NextSignal ==
    \/ \E ok \in BOOLEAN, o \in StartOutcomes : Startup(ok, o)
    \/ \E t \in BOOLEAN : SaveReplayBuffer(1, t)
    \/ \E t \in BOOLEAN, o \in StartOutcomes : RestartBegin(1, t, o)
    \/ StopWaitTimeout(1)
    \/ \E o \in StartOutcomes : RestartResume(1, o)
    \/ \E g, n \in BOOLEAN : DeliverSignal(g, n)
    \/ EngineStopped
    \/ \E p \in EnginePaths : EngineWrote(p)
    \/ \E t \in OtherOutputTypes, s \in OutputSignals : EngineOtherSignal(t, s)
InitSignal == Init /\ obsLoaded /\ Len(displays) = 1 /\ enabledMonitors = Undefined
SpecSignal == InitSignal /\ [][NextSignal]_vars

\* ------------------------------------------------- audio specification
\* the startup call over every choice of the two capture settings and every
\* outcome of creating the two audio inputs
NextAudio ==
    \E ok \in BOOLEAN, o \in StartOutcomes : Startup(ok, o)
InitAudio ==
    /\ InitManager
    /\ obsLoaded = TRUE
    /\ appSettings \in SettingsChoices
    /\ audioDevices \in { AudioDevices(da, mic) : da \in AudioOutcomes, mic \in AudioOutcomes }
    /\ displays \in Layouts
    /\ enabledMonitors \in EnabledChoices
    /\ videoSettings = DefaultVideoSettings
    /\ filePath = DefaultReplayFile
    /\ sourceFile = "present"
    /\ settingsFile = Stored(appSettings, enabledMonitors, videoSettings)
    /\ settingsCalls = << >>
SpecAudio == InitAudio /\ [][NextAudio]_vars

\* ================================================================ claims
\* the signal callback runs for a ReplayBuffer signal of kind k
Delivering(k) ==
    /\ signalQueue # << >>
    /\ Head(signalQueue).type = "replay-buffer"
    /\ Head(signalQueue).signal = k
    /\ signalQueue' = Tail(signalQueue)

\* saveReplayBuffer is called (call number s)
SaveCalled(s) == savePromise[s].state = "none" /\ savePromise'[s].state # "none"

TimeoutError == "Replay save timeout - no response from OBS"

\* C1 (as claimed): a Wrote signal that finds a pending save resolves it
\* with the reported path, exactly once, and empties the slot; a Wrote signal
\* that finds no pending save leaves the controller's state unchanged.
C1_AsClaimed ==
    [][Delivering("wrote") =>
        IF pendingReplaySave # 0
        THEN /\ savePromise'[pendingReplaySave].state = "resolved"
             /\ settleCalls'[pendingReplaySave] = 1
             /\ pendingReplaySave' = 0
        ELSE UNCHANGED << ctlVars, saveVars >>]_vars

\* C1 (amended): a Wrote signal that finds a pending save empties the slot,
\* disarms that save's timeout and settles that save exactly once: resolved
\* with the reported path (renamed LuminReplay... when the name started with
\* Replay and the rename went through), which also becomes lastReplayPath, or
\* rejected with "Failed to get replay path" when the path could not be
\* retrieved. A Wrote signal that finds no pending save settles nothing and
\* leaves the slot, the flags and the timers unchanged; it changes at most
\* lastReplayPath, to the reported path.
C1_WroteCorrelation ==
    /\ [](\A s \in SaveIds : settleCalls[s] <= 1)
    /\ [][Delivering("wrote") =>
          /\ \/ UNCHANGED lastReplayPath
             \/ lastReplayPath' = engineLastReplay
             \/ /\ engineLastReplay.base = "Replay"
                /\ lastReplayPath' = [engineLastReplay EXCEPT !.base = "LuminReplay"]
          /\ UNCHANGED << initialized, replayBufferRunning, isRestarting, pendingStopResolve >>
          /\ IF pendingReplaySave # 0
             THEN /\ pendingReplaySave' = 0
                  /\ settleCalls'[pendingReplaySave] = 1
                  /\ saveTimer'[pendingReplaySave] = "cleared"
                  /\ \/ /\ savePromise'[pendingReplaySave] = Resolved(lastReplayPath')
                        /\ lastReplayPath'.dir = engineLastReplay.dir
                        /\ lastReplayPath'.rest = engineLastReplay.rest
                     \/ /\ savePromise'[pendingReplaySave] = Rejected("Failed to get replay path")
                        /\ UNCHANGED lastReplayPath
                  /\ \A t \in SaveIds \ {pendingReplaySave} :
                        savePromise'[t] = savePromise[t] /\ saveTimer'[t] = saveTimer[t]
             ELSE UNCHANGED << pendingReplaySave, saveVars >>]_vars

\* a save was resolved with the renamed path, and a later Wrote signal found
\* no pending save and moved lastReplayPath on
C1_Witness ==
    \E s \in SaveIds :
        /\ savePromise[s].state = "resolved"
        /\ savePromise[s].path.base = "LuminReplay"
        /\ settleCalls[s] = 1
        /\ pendingReplaySave = 0
        /\ \A t \in SaveIds \ {s} : savePromise[t].state # "resolved"
        /\ lastReplayPath # savePromise[s].path

\* C2 (as claimed): a save call whose 10 s timeout expired without a signal
\* is rejected with the timeout error.
C2_AsClaimed ==
    \A s \in SaveIds : saveTimer[s] = "fired" => savePromise[s] = Rejected(TimeoutError)

\* C3: saveReplayBuffer called on a controller that is not initialized or
\* whose running flag is false fails at once; it registers no pending save,
\* arms no timeout and does not trigger the engine's save action.
C3_SaveNeedsRunning ==
    [][\A s \in SaveIds :
          SaveCalled(s) /\ ~(initialized /\ obsLoaded /\ replayBufferRunning) =>
              /\ savePromise'[s].state = "rejected"
              /\ savePromise'[s].error \in {"OBS not initialized", "Replay buffer is not running"}
              /\ saveTimer'[s] = "none"
              /\ UNCHANGED << pendingReplaySave, engineWrites, signalQueue >>]_vars

\* a save was refused on an initialized controller whose buffer was paused
C3_Witness ==
    \E s \in SaveIds :
        /\ initialized
        /\ savePromise[s] = Rejected("Replay buffer is not running")
        /\ saveTimer[s] = "none"

\* C4 (as claimed): a save call made while an earlier save is pending is
\* rejected and leaves the earlier call's pending operation in the slot.
C4_AsClaimed ==
    [][\A s \in SaveIds :
          SaveCalled(s) /\ pendingReplaySave # 0 =>
              savePromise'[s].state = "rejected" /\ UNCHANGED pendingReplaySave]_vars

\* C5 (as claimed): a WriteError signal that finds a pending save rejects
\* it with the engine-supplied message.
C5_AsClaimed ==
    [][Delivering("writing_error") /\ pendingReplaySave # 0 =>
          savePromise'[pendingReplaySave] = Rejected(Head(signalQueue).error)]_vars

\* C5 (amended): a WriteError signal that finds a pending save rejects it
\* with the engine-supplied message, or with "Write error" when the engine
\* supplied an empty message, disarms its timeout and empties the slot; when
\* no save is pending the signal changes nothing.
C5_WriteErrorRejects ==
    [][Delivering("writing_error") =>
          IF pendingReplaySave # 0
          THEN /\ savePromise'[pendingReplaySave] =
                     Rejected(IF Head(signalQueue).error = ""
                              THEN "Write error" ELSE Head(signalQueue).error)
               /\ saveTimer'[pendingReplaySave] = "cleared"
               /\ pendingReplaySave' = 0
               /\ UNCHANGED lastReplayPath
          ELSE UNCHANGED << ctlVars, saveVars >>]_vars

\* a save was rejected with the message the engine supplied
C5_Witness ==
    \E s \in SaveIds :
        /\ savePromise[s] = Rejected("disk full")
        /\ saveTimer[s] = "cleared"
        /\ pendingReplaySave = 0

\* C6 (as claimed): a Stop signal delivered while the restart guard is set
\* resolves the registered restart wait and leaves the running flag
\* untouched; delivered while the guard is clear it sets the flag to false.
C6_AsClaimed ==
    [][Delivering("stop") =>
          IF isRestarting
          THEN /\ UNCHANGED replayBufferRunning
               /\ pendingStopResolve # 0 => stopPromise'[pendingStopResolve] = "resolved"
          ELSE replayBufferRunning' = FALSE]_vars

\* restart invocation r was started while the buffer was running
StartedRunning(r) == Len(restartLog[r]) >= 2 /\ restartLog[r][2] = "stop"
RestartInProgress(r) == restartPc[r] \in {"awaitStop", "delay"}
NoDuplicateSource(sc) == \A i, j \in 1..Len(sc) : sc[i].monitor = sc[j].monitor => i = j

\* the engine is at rest and every signal it emitted has been delivered
Quiescent == signalQueue = << >> /\ engineState \in {"inactive", "active"}

\* C7 (as claimed): once a restart issued while Running has completed and
\* the engine's Stop and Start signals have arrived, whenever that was, the
\* running flag is true and the scene holds at most one capture source per
\* display.
C7_AsClaimed ==
    \A r \in RestartIds :
        /\ restartPc[r] = "done"
        /\ StartedRunning(r)
        /\ \A q \in RestartIds : ~RestartInProgress(q)
        /\ Quiescent
        => replayBufferRunning /\ NoDuplicateSource(scene)

\* C8 (as claimed): a restart started while Running clears the guard and
\* only then requests the engine start.
C8_AsClaimed ==
    \A r \in RestartIds :
        restartPc[r] = "done" /\ StartedRunning(r) =>
            restartLog[r] = << "guard", "stop", "wait", "config", "clear", "start" >>

\* C8 (amended): a restart started while Running performs its steps in this
\* order: set the guard, request engine stop, wait for the Stop signal or
\* the timeout, reapply the configuration, request engine start, and then
\* clear the guard; while its stop wait is outstanding it has not reapplied
\* the configuration.
C8_RestartOrder ==
    /\ [](\A r \in RestartIds :
            /\ restartPc[r] = "done" /\ StartedRunning(r) =>
                  restartLog[r] = << "guard", "stop", "wait", "config", "start", "clear" >>
            /\ restartPc[r] = "awaitStop" =>
                  restartLog[r] = << "guard", "stop", "wait" >>)
    /\ [][\A r \in RestartIds :
            restartPc[r] = "awaitStop" /\ restartPc'[r] = "awaitStop" /\ scene' # scene =>
                \E q \in RestartIds \ {r} : restartPc'[q] = "done" /\ restartPc[q] # "done"]_vars

\* a restart started while Running went through the stop wait and completed
C8_Witness ==
    \E r \in RestartIds :
        /\ restartPc[r] = "done"
        /\ StartedRunning(r)
        /\ stopPromise[r] = "resolved"
        /\ ~isRestarting

\* C9: processReplay with target 'all' starts a crop for exactly the display
\* indices in the enabled-monitor set (all displays when the set is
\* undefined), and the source file is deleted only when every one of those
\* crops succeeded: while a crop has failed or is unfinished the file is kept.
C9_SplitAll ==
    procTarget.all /\ procState # "idle" /\ procError # "Replay file not found" =>
        /\ \A i \in DisplayIndices :
              cropState[i] # "none" <=>
                  /\ i < Len(displays)
                  /\ enabledMonitors.defined =>
                        \E k \in 1..Len(enabledMonitors.list) : enabledMonitors.list[k] = i
        /\ sourceFile = "deleted" =>
              procState = "resolved" /\ \A i \in DisplayIndices : cropState[i] \in {"none", "ok"}
        /\ (\E i \in DisplayIndices : cropState[i] = "failed") =>
              sourceFile = "present" /\ procState = "rejected"

\* a split of two enabled displays in which one crop succeeded and the
\* other failed: the call was rejected and the source file is still there
C9_Witness ==
    /\ procTarget.all
    /\ \E i, j \in DisplayIndices : cropState[i] = "ok" /\ cropState[j] = "failed"
    /\ procState = "rejected"
    /\ sourceFile = "present"

\* C10 (as claimed): processReplay with target 'all' does not settle before
\* every crop it started has finished.
C10_AsClaimed ==
    procTarget.all /\ procState \in {"resolved", "rejected"} =>
        \A i \in DisplayIndices : cropState[i] # "running"

\* setupVideo has run (initialize got as far as configuring the video)
VideoConfigured == video # NoVideo
\* processReplay got past its file check and computed its canvas
CanvasComputed == procCanvas # NoCanvas

\* C11 (as claimed): the native bounding rectangle (origin and size) and the
\* output scale factors processReplay computes equal those setupVideo
\* computed under the same displays and settings, also when the
\* enabled-monitor set is a strict subset of the displays.
C11_AsClaimed ==
    VideoConfigured /\ CanvasComputed =>
        /\ procCanvas.minX = video.minX
        /\ procCanvas.minY = video.minY
        /\ procCanvas.nativeWidth = video.nativeWidth
        /\ procCanvas.nativeHeight = video.nativeHeight
        /\ procCanvas.res.width * video.nativeWidth = video.outputRes.width * procCanvas.nativeWidth
        /\ procCanvas.res.height * video.nativeHeight
               = video.outputRes.height * procCanvas.nativeHeight

SetMin(S) == CHOOSE m \in S : \A x \in S : m <= x
SetMax(S) == CHOOSE m \in S : \A x \in S : m >= x
Connected == 0..(Len(displays) - 1)
\* the enabled-monitor list is defined and names no connected display
NoneConnected ==
    /\ enabledMonitors.defined
    /\ \A k \in 1..Len(enabledMonitors.list) : enabledMonitors.list[k] \notin Connected

\* C12: when the enabled-monitor list names no connected display (it is
\* empty or stale), the native rectangle setupVideo computes is that of all
\* connected displays; and with at least one display connected the native
\* rectangle, the capture canvas and the output frame never have zero width
\* or height.
C12_FallbackToAll ==
    VideoConfigured =>
        /\ NoneConnected =>
              /\ video.minX = SetMin({displays[k].x : k \in 1..Len(displays)})
              /\ video.minY = SetMin({displays[k].y : k \in 1..Len(displays)})
              /\ video.minX + video.nativeWidth
                     = SetMax({displays[k].x + displays[k].width : k \in 1..Len(displays)})
              /\ video.minY + video.nativeHeight
                     = SetMax({displays[k].y + displays[k].height : k \in 1..Len(displays)})
        /\ video.nativeWidth > 0 /\ video.nativeHeight > 0
        /\ video.captureRes.width > 0 /\ video.captureRes.height > 0
        /\ video.outputRes.width > 0 /\ video.outputRes.height > 0

\* three displays, an enabled-monitor list naming only a display that is not
\* connected: the video was configured for the rectangle of all three
C12_Witness ==
    /\ VideoConfigured
    /\ Len(displays) = 3
    /\ enabledMonitors = Enabled(<<3>>)
    /\ video.minX < 0
    /\ video.nativeWidth = 1280 + 1920 + 1920

\* C13: the scene setupScene builds holds capture sources of connected
\* displays only, none for a display index that is not in the enabled-monitor
\* list (when the list is defined), and at most one per display.
C13_SceneWithinEnabled ==
    initialized =>
        /\ \A k \in 1..Len(scene) :
              /\ scene[k].monitor \in Connected
              /\ enabledMonitors.defined =>
                    \E j \in 1..Len(enabledMonitors.list) :
                        enabledMonitors.list[j] = scene[k].monitor
        /\ \A k, j \in 1..Len(scene) : scene[k].monitor = scene[j].monitor => k = j

\* three displays of which the first and the third are enabled: the scene
\* holds exactly their two sources
C13_Witness ==
    /\ initialized
    /\ Len(displays) = 3
    /\ enabledMonitors = Enabled(<<0, 2>>)
    /\ Len(scene) = 2
    /\ scene[1].monitor = 0
    /\ scene[2].monitor = 2

NoCropStarted ==
    \A i \in DisplayIndices : cropState[i] = "none" /\ cropJob[i].output = << >>

\* C14: processReplay called for a file that does not exist fails with the
\* file-not-found error, and called with a display index outside the display
\* list it fails with the monitor-not-found error; in both cases no
\* transcoder run was started and the source file was not deleted.
C14_FailsBeforeTranscoder ==
    /\ procState # "idle" /\ sourceFile = "absent" =>
          /\ procState = "rejected"
          /\ procError = "Replay file not found"
          /\ NoCropStarted
    /\ procState # "idle" /\ sourceFile # "absent"
            /\ ~procTarget.all /\ procTarget.index \notin Connected =>
          /\ procState = "rejected"
          /\ procError = "Monitor not found"
          /\ NoCropStarted
          /\ sourceFile = "present"
    /\ procError = "Replay file not found" => sourceFile = "absent"

\* processReplay was called for display index 2 with two displays connected
\* and an existing file: rejected, nothing cropped, the file still there
C14_Witness ==
    /\ Len(displays) = 2
    /\ procTarget = Monitor(2)
    /\ procState = "rejected"
    /\ procError = "Monitor not found"
    /\ sourceFile = "present"
    /\ NoCropStarted

\* processReplay was called for one display index and got as far as cropping
SingleCropCalled ==
    /\ ~procTarget.all
    /\ procState # "idle"
    /\ procError \notin {"Replay file not found", "Monitor not found"}

\* C15: processReplay called with one display index starts exactly one
\* transcoder run, for that display; its output is the input path with
\* "-monitor-<index + 1>" put in front of the extension; the source file is
\* deleted only after that run succeeded and is kept when it failed.
C15_SingleCrop ==
    SingleCropCalled =>
        LET i == procTarget.index
            n == Len(filePath)
        IN  /\ \A j \in DisplayIndices : cropState[j] # "none" <=> j = i
            /\ cropJob[i].output =
                   SubSeq(filePath, 1, n - 2)
                       \o << "-monitor-", << "1", "2", "3", "4" >>[i + 1] >>
                       \o << ".", filePath[n] >>
            /\ sourceFile = "deleted" => cropState[i] = "ok" /\ procState = "resolved"
            /\ cropState[i] = "running" => sourceFile = "present" /\ procState = "cropping"
            /\ cropState[i] = "failed" => sourceFile = "present" /\ procState = "rejected"

\* the replay "Replay 2024-01-01 10.30.mkv" was cropped to the second
\* display: the output is "...10.30-monitor-2.mkv" and the source was
\* deleted after the crop succeeded
C15_Witness ==
    /\ procTarget = Monitor(1)
    /\ filePath = << "videos/Replay 2024-01-01 10", ".", "30", ".", "mkv" >>
    /\ cropState[1] = "ok"
    /\ cropJob[1].output
          = << "videos/Replay 2024-01-01 10", ".", "30", "-monitor-", "2", ".", "mkv" >>
    /\ procState = "resolved"
    /\ sourceFile = "deleted"

\* the indices of the displays setupVideo works with: the connected ones the
\* enabled-monitor list names, all connected ones when the list is undefined
\* or names none
ActiveIndices ==
    IF ~enabledMonitors.defined \/ NoneConnected THEN Connected
    ELSE {i \in Connected :
              \E k \in 1..Len(enabledMonitors.list) : enabledMonitors.list[k] = i}

\* C16: the native rectangle setupVideo computes encloses every active
\* display; its origin is the least left and the least top edge and its far
\* corner the greatest right and the greatest bottom edge of the active
\* displays, and of no others.
C16_BoundingRect ==
    VideoConfigured =>
        /\ \A i \in ActiveIndices :
              /\ video.minX <= displays[i + 1].x
              /\ video.minY <= displays[i + 1].y
              /\ displays[i + 1].x + displays[i + 1].width <= video.minX + video.nativeWidth
              /\ displays[i + 1].y + displays[i + 1].height <= video.minY + video.nativeHeight
        /\ video.minX = SetMin({displays[i + 1].x : i \in ActiveIndices})
        /\ video.minY = SetMin({displays[i + 1].y : i \in ActiveIndices})
        /\ video.minX + video.nativeWidth
               = SetMax({displays[i + 1].x + displays[i + 1].width : i \in ActiveIndices})
        /\ video.minY + video.nativeHeight
               = SetMax({displays[i + 1].y + displays[i + 1].height : i \in ActiveIndices})

\* a display left of the origin is connected but not enabled; the two
\* enabled displays stand side by side to the right of it: the rectangle
\* starts at the first of them and spans both
C16_Witness ==
    /\ VideoConfigured
    /\ Len(displays) = 3
    /\ displays[1].x = -1280
    /\ enabledMonitors = Enabled(<<1, 2>>)
    /\ video.minX = 0 /\ video.minY = 0
    /\ video.nativeWidth = 3840 /\ video.nativeHeight = 1080

\* C17: resolution r is what the preset p with stored custom resolution c
\* yields for the native rectangle setupVideo computed: 'native' leaves it
\* unchanged; '1080p', '720p' and '480p' fix the height and make the width
\* nativeWidth * height / nativeHeight rounded to the nearest integer (halves
\* upwards); 'custom' yields the stored resolution, or 1920x1080 when none
\* is stored. The capture resolution follows from the capture settings and
\* the output resolution from the output settings, each by that rule alone.
C17_ResolutionPolicy ==
    VideoConfigured =>
        LET PresetHeight(p) == CASE p = "1080p" -> 1080 [] p = "720p" -> 720 [] p = "480p" -> 480
            Yields(p, c, r) ==
                /\ p = "native" =>
                      r.width = video.nativeWidth /\ r.height = video.nativeHeight
                /\ p \in {"1080p", "720p", "480p"} =>
                      /\ r.height = PresetHeight(p)
                      /\ 2 * r.width * video.nativeHeight - video.nativeHeight
                             <= 2 * video.nativeWidth * PresetHeight(p)
                      /\ 2 * video.nativeWidth * PresetHeight(p)
                             < 2 * r.width * video.nativeHeight + video.nativeHeight
                /\ p = "custom" /\ c # NoRes => r = c
                /\ p = "custom" /\ c = NoRes => r.width = 1920 /\ r.height = 1080
        IN  /\ Yields(videoSettings.captureResolution, videoSettings.customCaptureResolution,
                      video.captureRes)
            /\ Yields(videoSettings.outputResolution, videoSettings.customOutputResolution,
                      video.outputRes)

\* two 1920x1080 displays side by side, capture preset 720p, output preset
\* 480p: capture 2560x720, output 1707x480 (1706.67 rounded)
C17_Witness ==
    /\ VideoConfigured
    /\ video.nativeWidth = 3840 /\ video.nativeHeight = 1080
    /\ videoSettings.captureResolution = "720p"
    /\ videoSettings.outputResolution = "480p"
    /\ video.captureRes = Res(2560, 720)
    /\ video.outputRes = Res(1707, 480)

\* twice the distance, in units of 1 / h, between width w and the exact
\* value nw * t / h
TwiceOff(w, nw, t, h) == IF 2 * w * h >= 2 * nw * t THEN 2 * w * h - 2 * nw * t
                         ELSE 2 * nw * t - 2 * w * h

\* C18: under a fixed-height preset the width setupVideo computes differs
\* from the exact value nativeWidth * height / nativeHeight by at most half
\* a pixel, for the capture and for the output resolution.
C18_HalfPixel ==
    VideoConfigured =>
        /\ videoSettings.captureResolution \in {"1080p", "720p", "480p"} =>
              TwiceOff(video.captureRes.width, video.nativeWidth, video.captureRes.height,
                       video.nativeHeight) <= video.nativeHeight
        /\ videoSettings.outputResolution \in {"1080p", "720p", "480p"} =>
              TwiceOff(video.outputRes.width, video.nativeWidth, video.outputRes.height,
                       video.nativeHeight) <= video.nativeHeight

\* a 2560x1440 display above a 1920x1080 one, output preset 480p: the exact
\* width 487.62 is not a whole number and the computed width is 488
C18_Witness ==
    /\ VideoConfigured
    /\ video.nativeWidth = 2560 /\ video.nativeHeight = 2520
    /\ videoSettings.outputResolution = "480p"
    /\ video.outputRes = Res(488, 480)
    /\ 488 * 2520 # 2560 * 480

\* display A 1920x1080 at (0,0), display B 1920x1080 at (1920,0)
SideBySide == displays = << Display(0, 0, 1920, 1080), Display(1920, 0, 1920, 1080) >>
BothEnabled == ~enabledMonitors.defined \/ enabledMonitors = Enabled(<<0, 1>>)

\* C19: with displays A 1920x1080 at (0,0) and B 1920x1080 at (1920,0), both
\* enabled, and the output preset 720p, processReplay takes the native canvas
\* to be 3840x1080 and the output frame 2560x720, and crops B at x = 1280,
\* y = 0 with width 1280 and height 720.
C19_TwoDisplays720p ==
    SideBySide /\ BothEnabled /\ videoSettings.outputResolution = "720p" /\ CanvasComputed =>
        /\ procCanvas.nativeWidth = 3840 /\ procCanvas.nativeHeight = 1080
        /\ procCanvas.res.width = 2560 /\ procCanvas.res.height = 720
        /\ cropState[1] # "none" =>
              /\ cropJob[1].crop.x = 1280 /\ cropJob[1].crop.y = 0
              /\ cropJob[1].crop.w = 1280 /\ cropJob[1].crop.h = 720

\* in that scenario the crop of B, at (1280, 0) and 1280x720, has succeeded
C19_Witness ==
    /\ SideBySide /\ BothEnabled /\ videoSettings.outputResolution = "720p"
    /\ procCanvas.res = Res(2560, 720)
    /\ cropState[1] = "ok"
    /\ cropJob[1].crop = [x |-> 1280, y |-> 0, w |-> 1280, h |-> 720]

NativeOutput ==
    /\ CanvasComputed
    /\ procCanvas.res.width = procCanvas.nativeWidth
    /\ procCanvas.res.height = procCanvas.nativeHeight
CropsStarted == {i \in DisplayIndices : cropState[i] # "none"}
CropOverlap(a, b) ==
    /\ a.x < b.x + b.w /\ b.x < a.x + a.w
    /\ a.y < b.y + b.h /\ b.y < a.y + a.h
NoCropsOverlap ==
    \A i, j \in CropsStarted : i # j => ~CropOverlap(cropJob[i].crop, cropJob[j].crop)
\* the crops cover the canvas processReplay computed: every cell of the grid
\* drawn by the crop edges and the canvas edges lies in some crop
CropEdgesX == {0} \cup UNION {{cropJob[i].crop.x, cropJob[i].crop.x + cropJob[i].crop.w} :
                                  i \in CropsStarted}
CropEdgesY == {0} \cup UNION {{cropJob[i].crop.y, cropJob[i].crop.y + cropJob[i].crop.h} :
                                  i \in CropsStarted}
CropsCoverCanvas ==
    \A px \in CropEdgesX, py \in CropEdgesY :
        px >= 0 /\ px < procCanvas.res.width /\ py >= 0 /\ py < procCanvas.res.height =>
            \E i \in CropsStarted :
                /\ cropJob[i].crop.x <= px /\ px < cropJob[i].crop.x + cropJob[i].crop.w
                /\ cropJob[i].crop.y <= py /\ py < cropJob[i].crop.y + cropJob[i].crop.h
SplitAllCalled ==
    procTarget.all /\ procState # "idle" /\ procError # "Replay file not found"

\* C21 (as claimed): at native output resolution the crop rectangles of a
\* split into all displays tile the canvas: no two overlap and together they
\* cover it.
C21_AsClaimed ==
    SplitAllCalled /\ NativeOutput => NoCropsOverlap /\ CropsCoverCanvas

\* the displays fill their bounding rectangle: their areas add up to its area
RECURSIVE AreaFrom(_, _)
AreaFrom(ds, k) == IF k > Len(ds) THEN 0 ELSE ds[k].width * ds[k].height + AreaFrom(ds, k + 1)
DisplaysFillCanvas == AreaFrom(displays, 1) = procCanvas.nativeWidth * procCanvas.nativeHeight

\* C21 (amended): at native output resolution the crop rectangle of each
\* display a split into all displays processes is that display's own
\* rectangle, taken from the origin of the bounding rectangle of all connected
\* displays; no two crops overlap and each lies within that bounding
\* rectangle; together they cover it when every connected display is
\* processed and the displays fill their bounding rectangle, and not
\* otherwise.
C21_NativeCrops ==
    SplitAllCalled /\ NativeOutput =>
        /\ \A i \in CropsStarted :
              /\ cropJob[i].crop.x
                     = displays[i + 1].x - SetMin({displays[k].x : k \in 1..Len(displays)})
              /\ cropJob[i].crop.y
                     = displays[i + 1].y - SetMin({displays[k].y : k \in 1..Len(displays)})
              /\ cropJob[i].crop.w = displays[i + 1].width
              /\ cropJob[i].crop.h = displays[i + 1].height
              /\ cropJob[i].crop.x >= 0 /\ cropJob[i].crop.y >= 0
              /\ cropJob[i].crop.x + cropJob[i].crop.w <= procCanvas.res.width
              /\ cropJob[i].crop.y + cropJob[i].crop.h <= procCanvas.res.height
        /\ NoCropsOverlap
        /\ CropsCoverCanvas <=> (CropsStarted = Connected /\ DisplaysFillCanvas)

\* two equal displays side by side, both processed at native output
\* resolution: the two crops cover the 3840x1080 canvas
C21_Witness ==
    /\ SplitAllCalled /\ NativeOutput
    /\ SideBySide
    /\ CropsStarted = {0, 1}
    /\ cropJob[1].crop = [x |-> 1920, y |-> 0, w |-> 1920, h |-> 1080]
    /\ CropsCoverCanvas

\* |a| for an integer a
Abs(a) == IF a >= 0 THEN a ELSE 0 - a

\* C22 (as claimed): for each display in the scene, dividing its scene
\* position by the scene scale gives the display's offset from the origin of
\* the bounding rectangle (position and scale are fractions of one
\* denominator, so their numerators are compared); and when processReplay works at the same scale,
\* the crop origin it computes for the display is the scene position rounded
\* (it differs from it by at most half a pixel).
C22_AsClaimed ==
    initialized /\ CanvasComputed =>
        \A k \in 1..Len(scene) :
            LET item == scene[k]
                d == displays[item.monitor + 1]
                crop == cropJob[item.monitor].crop
            IN  /\ item.posX.den = item.scaleX.den
                /\ item.posX.num = (d.x - video.minX) * item.scaleX.num
                /\ item.posY.den = item.scaleY.den
                /\ item.posY.num = (d.y - video.minY) * item.scaleY.num
                /\ /\ cropState[item.monitor] # "none"
                   /\ item.scaleX.num * procCanvas.nativeWidth
                          = procCanvas.res.width * item.scaleX.den
                   /\ item.scaleY.num * procCanvas.nativeHeight
                          = procCanvas.res.height * item.scaleY.den
                   => /\ 2 * Abs(crop.x * item.posX.den - item.posX.num) <= item.posX.den
                      /\ 2 * Abs(crop.y * item.posY.den - item.posY.num) <= item.posY.den

\* ---------------------------------------------------------------- C23
Attached(name) == \E i \in DOMAIN audioSources : audioSources[i] = name
TimesAttached(name) == Cardinality({ i \in DOMAIN audioSources : audioSources[i] = name })

\* C23 as claimed: after scene composition the system-audio source is
\* attached only when captureDesktopAudio is set and the microphone source
\* only when captureMicrophone is set, at most one of each, and whatever
\* happened to the audio inputs the scene is the composed one.
C23_AsClaimed ==
    initialized =>
        /\ Attached("Desktop Audio") => appSettings.captureDesktopAudio
        /\ Attached("Microphone") => appSettings.captureMicrophone
        /\ TimesAttached("Desktop Audio") <= 1
        /\ TimesAttached("Microphone") <= 1
        /\ scene = SetupScene(displays, enabledMonitors, videoSettings)

\* ---------------------------------------------------------------- C24
\* the step is one call of op, logged as the last entry of callLog'
Called(op) == Len(callLog') = Len(callLog) + 1 /\ callLog'[Len(callLog')].op = op
\* everything the controller, the engine and the settings hold, the call
\* log aside
AllButCallLog ==
    << ctlVars, saveVars, restartVars, engineVars, cfgVars, splitVars, settingsVars,
       audioVars, ipcConnected >>

\* C24: an initialize call on a controller that is already initialized, or
\* whose native engine module could not be loaded, makes no engine request
\* (no second signal subscription, scene or start request), changes no
\* state and returns normally.
C24_InitializeIdempotent ==
    [][ (Called("initialize") /\ (initialized \/ ~obsLoaded)) =>
            /\ callLog'[Len(callLog')].engine = << >>
            /\ callLog'[Len(callLog')].returned = "undefined"
            /\ UNCHANGED AllButCallLog ]_vars
\* a successful initialize followed by a second initialize call
C24_Witness ==
    /\ Len(callLog) >= 2
    /\ callLog[1] = Call("initialize", InitRequests, "undefined")
    /\ callLog[2].op = "initialize"
    /\ initialized

\* ---------------------------------------------------------------- C25
\* C25 as claimed: an initialize call whose engine initialization returns a
\* non-zero result leaves the controller uninitialized, makes no request
\* after OBS_API_initAPI (no signal subscription, no configuration, no
\* start) and hands the failure to its caller.
C25_AsClaimed ==
    [][ (Called("initialize") /\ callLog'[Len(callLog')].engine = InitFailedRequests) =>
            /\ ~initialized'
            /\ UNCHANGED << scene, video, audioSources, engineState, signalQueue >>
            /\ callLog'[Len(callLog')].returned # "undefined" ]_vars

\* ---------------------------------------------------------------- C28
\* C28 as claimed: a shutdown call on an initialized controller requests an
\* engine stop exactly when the running flag is set and then disconnects
\* from the engine; on an uninitialized controller it makes no engine
\* request; and it returns normally whatever the engine did.
C28_AsClaimed ==
    [][ Called("shutdown") =>
            /\ callLog'[Len(callLog')].returned = "undefined"
            /\ callLog'[Len(callLog')].engine =
                   (IF ~initialized THEN << >>
                    ELSE (IF replayBufferRunning THEN << "stopReplayBuffer" >> ELSE << >>)
                             \o << "IPC.disconnect" >>) ]_vars

\* ---------------------------------------------------------------- C26
\* the step is the signal callback handling the oldest signal
Handled == signalQueue # << >> /\ signalQueue' = Tail(signalQueue)

\* C26: handling a signal of the streaming or the recording output leaves
\* the running flag, the restart guard, the stop-wait resolver, the pending
\* save slot and the last replay path as they were.
C26_OtherSignalsIgnored ==
    [][ (Handled /\ Head(signalQueue).type \in OtherOutputTypes) =>
            UNCHANGED << replayBufferRunning, isRestarting, pendingStopResolve,
                         pendingReplaySave, lastReplayPath >> ]_vars
\* a foreign signal was emitted and handled while the buffer ran and a save
\* was pending
C26_Witness ==
    /\ engineOtherSignals >= 1
    /\ signalQueue = << >>
    /\ replayBufferRunning
    /\ pendingReplaySave # 0

\* ---------------------------------------------------------------- C27
\* the step is restartWithNewSettings call r making a stop request that the
\* engine throws on
StopRequestFailed(r) == restartPc[r] = "idle" /\ restartPc'[r] = "failed"

\* C27 as claimed: a stop request of restartWithNewSettings that the engine
\* throws on is caught and leaves the initialized flag, the running flag,
\* the restart guard and the pending save slot as they were, as a throwing
\* request of startReplayBuffer or stopReplayBuffer does.
C27_AsClaimed ==
    [][ \A r \in RestartIds :
            StopRequestFailed(r) =>
                UNCHANGED << initialized, replayBufferRunning, isRestarting,
                             pendingReplaySave >> ]_vars

\* ---------------------------------------------------------------- C29
LastSettingsCall == settingsCalls[Len(settingsCalls)]
\* the last call on the settings manager was resetToDefaults
ResetJustMade == settingsCalls # << >> /\ LastSettingsCall.op = "resetToDefaults"
\* every setting at its default but recordingPath, which is the one the
\* reset found
SettingsAreReset ==
    /\ appSettings =
           [defaultSettings EXCEPT !.recordingPath = LastSettingsCall.before.app.recordingPath]
    /\ enabledMonitors = Undefined
    /\ videoSettings = DefaultVideoSettings

\* C29 as claimed: after resetToDefaults every setting has its default value
\* except recordingPath, which has the value it had before, and the settings
\* file holds that result.
C29_AsClaimed ==
    ResetJustMade =>
        /\ SettingsAreReset
        /\ settingsFile = Stored(appSettings, enabledMonitors, videoSettings)

\* C29, amended: after resetToDefaults every setting has its default value
\* except recordingPath, which has the value it had before; the settings
\* file holds that result when the write went through, and what it held
\* before the reset when the write failed.
C29_ResetKeepsPath ==
    ResetJustMade =>
        /\ SettingsAreReset
        /\ settingsFile = (IF LastSettingsCall.wrote
                           THEN Stored(appSettings, enabledMonitors, videoSettings)
                           ELSE LastSettingsCall.fileBefore)
\* a reset, written to the file, of settings whose recordingPath and
\* enabled monitors were not the defaults
C29_Witness ==
    /\ ResetJustMade
    /\ LastSettingsCall.wrote
    /\ LastSettingsCall.before.app.recordingPath = "D:/clips"
    /\ LastSettingsCall.before.enabledMonitors # Undefined
    /\ appSettings.recordingPath = "D:/clips"

\* ---------------------------------------------------------------- C30
\* C30 as claimed: every saveReplayBuffer call that passed its
\* preconditions, and so returned a pending promise, is eventually settled:
\* resolved with a path or rejected with an error.
C30_AsClaimed ==
    \A s \in SaveIds :
        (savePromise[s].state = "pending") ~> (savePromise[s].state \in {"resolved", "rejected"})

\* ---------------------------------------------------------------- C31
\* C31 as claimed: a save is resolved only in the handling of the Wrote
\* signal its own engine trigger caused; a Wrote signal caused by the
\* trigger of an earlier save never resolves a later one.
C31_AsClaimed ==
    [][ \A s \in SaveIds :
            (savePromise[s].state = "pending" /\ savePromise'[s].state = "resolved") =>
                /\ signalQueue # << >>
                /\ Head(signalQueue).signal = "wrote"
                /\ Head(signalQueue).cause = s ]_vars

\* ---------------------------------------------------------------- C32
\* C32 as claimed: whenever no restartWithNewSettings call is in progress
\* the restart guard is clear and no stop-wait resolver is registered, also
\* after a restart that ended because an engine call inside it threw.
C32_AsClaimed ==
    (\A r \in RestartIds : ~RestartInProgress(r)) =>
        /\ ~isRestarting
        /\ pendingStopResolve = 0

\* ---------------------------------------------------------------- C33
\* C33 as claimed: while at least one restartWithNewSettings call is
\* between its start and its completion the restart guard is set, also when
\* two calls overlap; and the handling of a Stop signal that a restart's
\* stop request caused never takes the running flag from true to false.
\* (Under SpecRace every stop request is a restart's.)
C33_AsClaimed ==
    [][ /\ (\E r \in RestartIds : RestartInProgress(r)') => isRestarting'
        /\ Delivering("stop") => (replayBufferRunning => replayBufferRunning') ]_vars

\* ---------------------------------------------------------------- C34
\* C34 as claimed: whenever no restart is in progress, the engine is not in
\* the middle of stopping and every signal it emitted has been delivered,
\* isReplayBufferRunning() tells whether the engine's replay buffer is
\* active.
C34_AsClaimed ==
    ((\A r \in RestartIds : ~RestartInProgress(r)) /\ Quiescent) =>
        (replayBufferRunning <=> engineState = "active")

\* ---------------------------------------------------------------- C35
\* C35 as claimed: the combined source file is deleted only after
\* processReplay produced at least one per-monitor output file, for every
\* enabled-monitor set.
C35_AsClaimed ==
    sourceFile = "deleted" => \E i \in DisplayIndices : cropState[i] = "ok"

\* ---------------------------------------------------------------- C36
\* C36 as claimed: in the composed scene the displays that have a capture
\* source are exactly the active displays, those the bounding rectangle and
\* the scale of the scene were computed from, also when the enabled-monitor
\* list selects no display and the rectangle is that of all displays.
C36_AsClaimed ==
    initialized => { scene[k].monitor : k \in 1..Len(scene) } = ActiveIndices

\* ---------------------------------------------------------------- C37
\* the step is save call s passing its preconditions
Accepting(s) == savePromise[s].state = "none" /\ savePromise'[s].state # "none" /\ SavePrecondition

\* C37: a save call that passes its preconditions has registered its
\* pending operation and armed its timeout by the time the engine is
\* triggered: a signal the engine delivers inside the trigger call settles
\* that very call and disarms its timer, and when the trigger returns
\* without a signal the call holds the slot with its timer armed.
C37_RegisteredBeforeTrigger ==
    [][ \A s \in SaveIds :
            Accepting(s) =>
                /\ s \in engineSyncAnswers' =>
                       /\ savePromise'[s].state \in {"resolved", "rejected"}
                       /\ saveTimer'[s] = "cleared"
                       /\ settleCalls'[s] = 1
                       /\ pendingReplaySave' = 0
                /\ savePromise'[s].state = "pending" =>
                       /\ pendingReplaySave' = s
                       /\ saveTimer'[s] = "armed" ]_vars
\* a save resolved by the Wrote signal delivered inside its own trigger
C37_Witness ==
    \E s \in SaveIds :
        /\ s \in engineSyncAnswers
        /\ savePromise[s].state = "resolved"
        /\ saveTimer[s] = "cleared"

\* ---------------------------------------------------------------- C38
\* C38: a restartWithNewSettings call that waits for the Stop signal goes
\* on, whether or not the signal ever comes, to reapply the configuration
\* and request the start; and the step that completes it leaves the
\* restart guard clear.
C38_RestartCompletes ==
    /\ \A r \in RestartIds :
           (restartPc[r] = "awaitStop") ~>
               (restartPc[r] = "done" /\ restartLog[r] = << "guard", "stop", "wait" >> \o TailSteps)
    /\ [][ \A r \in RestartIds :
               (restartPc[r] # "done" /\ restartPc'[r] = "done") => ~isRestarting' ]_vars
\* a restart that waited, got no Stop signal (the engine is still
\* stopping) and completed
C38_Witness ==
    \E r \in RestartIds :
        /\ restartPc[r] = "done"
        /\ StartedRunning(r)
        /\ engineState \in {"stopping", "restarting"}
        /\ signalQueue = << >>
        /\ ~isRestarting

\* ---------------------------------------------------------------- C39
\* the step is the timeout callback of some save call
TimerExpiring == \E s \in SaveIds : saveTimer[s] = "armed" /\ saveTimer'[s] = "fired"
\* the step is a save call whose engine trigger threw
TriggerThrowing ==
    \E s \in SaveIds : savePromise[s].state = "none" /\ savePromise'[s] = Rejected("engine error")
\* save call s is settled in this step
SettledNow(s) ==
    savePromise[s].state \in {"none", "pending"} /\ savePromise'[s].state \in {"resolved", "rejected"}

\* C39: the handling of a Wrote or WriteError signal (path retrieved, not
\* retrieved, or rename failed), a timeout expiry and a save trigger that
\* threw each leave the pending slot empty; a save settled by any of them
\* has been settled once and its timer is no longer armed, so no later
\* expiry or signal settles it again.
C39_SlotEmptied ==
    /\ [](\A s \in SaveIds :
              /\ settleCalls[s] <= 1
              /\ savePromise[s].state \in {"resolved", "rejected"} => saveTimer[s] # "armed")
    /\ [][ (Delivering("wrote") \/ Delivering("writing_error") \/ TimerExpiring
             \/ TriggerThrowing) =>
               /\ pendingReplaySave' = 0
               /\ \A s \in SaveIds :
                      SettledNow(s) => settleCalls'[s] = 1 /\ saveTimer'[s] \in {"cleared", "fired", "none"}
          ]_vars
\* a save rejected by its timeout; the engine's late Wrote signal was then
\* handled and settled nothing more
C39_Witness ==
    \E s \in SaveIds :
        /\ saveTimer[s] = "fired"
        /\ savePromise[s] = Rejected("Replay save timeout - no response from OBS")
        /\ settleCalls[s] = 1
        /\ pendingReplaySave = 0
        /\ engineWrites = << >>
        /\ signalQueue = << >>
        /\ lastReplayPath # NoPath

\* ---------------------------------------------------------------- C40
\* the step is restartWithNewSettings call r being made
RestartCalled(r) == restartPc[r] = "idle" /\ restartPc'[r] # "idle"
\* call r ran from the guard straight to its end: no stop request, no wait
RanStraight(r) ==
    /\ restartPc'[r] = "done"
    /\ restartLog'[r] = << "guard", "config", "start", "clear" >>
    /\ UNCHANGED << pendingStopResolve, stopPromise >>
    /\ video' = SetupVideo(displays, enabledMonitors, videoSettings)
    /\ \E o \in StartOutcomes :
           /\ engineState' = EngineAfterStart(engineState, o)
           /\ signalQueue' = signalQueue \o StartSignals(engineState, o)
\* call r returned at its first line: nothing but its own position changed
ReturnedAtOnce(r) ==
    /\ restartPc' = [restartPc EXCEPT ![r] = "returned"]
    /\ UNCHANGED << ctlVars, saveVars, stopPromise, restartLog, engineVars, cfgVars,
                    audioVars, lifeVars >>

\* C40 as claimed: restartWithNewSettings called on an initialized
\* controller whose buffer is not running, be it paused or with a stop in
\* progress, requests no stop and waits for no Stop signal but reapplies
\* the configuration and requests the start; the Start signal then sets the
\* running flag; called on an uninitialized controller it does nothing.
C40_AsClaimed ==
    [][ /\ \A r \in RestartIds :
               RestartCalled(r) =>
                   IF ~initialized THEN ReturnedAtOnce(r)
                   ELSE (~replayBufferRunning \/ engineState = "stopping") => RanStraight(r)
        /\ Delivering("start") => replayBufferRunning' ]_vars

\* C40, amended: what decides is the running flag. Called with the flag
\* false the restart requests no stop and waits for no Stop signal but
\* reapplies the configuration and requests the start; called with the flag
\* true, as it still is while a stop is in progress, it registers the
\* stop-wait resolver and requests a stop. The Start signal sets the
\* running flag; called on an uninitialized controller it does nothing.
C40_RestartWhenPaused ==
    [][ /\ \A r \in RestartIds :
               RestartCalled(r) =>
                   IF ~initialized THEN ReturnedAtOnce(r)
                   ELSE IF ~replayBufferRunning THEN RanStraight(r)
                   ELSE /\ pendingStopResolve' = r
                        /\ Len(restartLog'[r]) >= 2 /\ restartLog'[r][2] = "stop"
        /\ Delivering("start") => replayBufferRunning' ]_vars
\* a restart called with the running flag false ran straight through, and
\* the engine's Start signal has then set the running flag
C40_Witness ==
    \E r \in RestartIds :
        /\ restartLog[r] = << "guard", "config", "start", "clear" >>
        /\ restartPc[r] = "done"
        /\ \A q \in RestartIds \ {r} : restartPc[q] = "idle"
        /\ replayBufferRunning
        /\ engineState = "active"
        /\ signalQueue = << >>

====
